---- MODULE Spec2Model ----
(***************************************************************************)
(* Model of src/slurm_generator.py: the cluster-resource pipeline          *)
(*   get_detailed_partition_info  (fetch, row parsing, aggregation)        *)
(*   infer_gpu_memory             (catalog lookup by name fragment)        *)
(*   get_available_resources      (categorise, sort, filter, project)      *)
(*   generate_slurm_script        (validation, error report, job script)   *)
(* Spec is one invocation of the pipeline; SpecConc interleaves the steps   *)
(* of two invocations; SpecGen is one invocation of generate_slurm_script. *)
(*                                                                         *)
(* Text is modelled as sequences of one-character strings, so that         *)
(* str.split, str.replace, str.lower, the `in` substring test and int()    *)
(* are computed rather than assumed.  Python's None is the empty tuple     *)
(* NONE and a present value v is the one-element tuple SOME(v).            *)
(***************************************************************************)
EXTENDS Integers, Sequences, FiniteSets, TLC

VARIABLES
    pc,                 \* position of the single pipeline invocation
    min_gpu_memory,     \* argument of get_available_resources
    sinfo_calls,        \* number of subprocess.run invocations so far
    fetched,            \* what the external command did: none/ok/nonzero/timeout/launch
    stdout,             \* text the command produced (partial on a timeout)
    lines,              \* local `lines` of get_detailed_partition_info
    idx,                \* position of the `for line in lines[1:]` loop (1-based)
    partitions,         \* local dict `partitions`, in insertion order
    ret_partitions,     \* first component of the returned pair (NONE or SOME(list))
    error,              \* second component of the returned pair (NONE or SOME(msg))
    gpu_partitions,     \* defaultdict(list): gpu memory -> list of partitions
    cpu_partitions,     \* list of compute-only partitions
    filtered_results,   \* list of ranked records
    summary,            \* structural content of the returned markup
    calls,              \* locals of each of two concurrent invocations
    heap,               \* the `partitions` dict objects the concurrent invocations build
    gen                 \* one invocation of generate_slurm_script: arguments, locals, result

vars == <<pc, min_gpu_memory, sinfo_calls, fetched, stdout, lines, idx, partitions,
          ret_partitions, error, gpu_partitions, cpu_partitions, filtered_results,
          summary, calls, heap, gen>>

\* the variables of the single invocation
single == <<pc, min_gpu_memory, sinfo_calls, fetched, stdout, lines, idx, partitions,
            ret_partitions, error, gpu_partitions, cpu_partitions, filtered_results,
            summary>>

(***************************************************************************)
(* Bounds of the model.                                                    *)
(***************************************************************************)
MaxRows == 2

NONE == <<>>
SOME(v) == <<v>>

Max(a, b) == IF a >= b THEN a ELSE b

RECURSIVE SumSeq(_)
SumSeq(s) == IF s = <<>> THEN 0 ELSE Head(s) + SumSeq(Tail(s))

(***************************************************************************)
(* Text primitives.                                                        *)
(***************************************************************************)
Digits == <<"0", "1", "2", "3", "4", "5", "6", "7", "8", "9">>

UpperCase == <<"A", "B", "C", "D", "E", "F", "G", "H", "I", "J", "K", "L", "M",
               "N", "O", "P", "Q", "R", "S", "T", "U", "V", "W", "X", "Y", "Z">>

LowerCase == <<"a", "b", "c", "d", "e", "f", "g", "h", "i", "j", "k", "l", "m",
               "n", "o", "p", "q", "r", "s", "t", "u", "v", "w", "x", "y", "z">>

Whitespace == {" ", "\t", "\n"}

\* str.lower(), character by character
LowerChar(c) ==
    IF \E k \in 1..Len(UpperCase) : UpperCase[k] = c
    THEN LowerCase[CHOOSE k \in 1..Len(UpperCase) : UpperCase[k] = c]
    ELSE c

StrLower(s) == [k \in 1..Len(s) |-> LowerChar(s[k])]

\* the `in` operator on strings: f occurs in s as a contiguous run
StrContains(f, s) ==
    \E k \in 0..(Len(s) - Len(f)) : SubSeq(s, k + 1, k + Len(f)) = f

\* str.replace(c, ''): every occurrence of the character c is removed
RECURSIVE StrRemoveChar(_, _)
StrRemoveChar(s, c) ==
    IF s = <<>> THEN <<>>
    ELSE IF Head(s) = c THEN StrRemoveChar(Tail(s), c)
    ELSE <<Head(s)>> \o StrRemoveChar(Tail(s), c)

\* the pieces of s between the characters of the set seps, empty pieces kept:
\* P holds the positions of the separators not yet passed, start the first
\* character of the current piece
RECURSIVE PiecesFrom(_, _, _)
PiecesFrom(s, P, start) ==
    IF P = {} THEN <<SubSeq(s, start, Len(s))>>
    ELSE LET at == CHOOSE k \in P : \A j \in P : k <= j
         IN  <<SubSeq(s, start, at - 1)>> \o PiecesFrom(s, P \ {at}, at + 1)

Pieces(s, seps) == PiecesFrom(s, {k \in 1..Len(s) : s[k] \in seps}, 1)

\* str.split(sep) for a one-character separator: empty pieces are kept
SplitOn(s, sep) == Pieces(s, {sep})

RECURSIVE NonEmpty(_)
NonEmpty(l) ==
    IF l = <<>> THEN <<>>
    ELSE IF Head(l) = <<>> THEN NonEmpty(Tail(l))
    ELSE <<Head(l)>> \o NonEmpty(Tail(l))

\* str.split() with no argument: runs of whitespace separate, no empty pieces
SplitWs(s) == NonEmpty(Pieces(s, Whitespace))

\* ' '.join(list)
RECURSIVE JoinSpace(_)
JoinSpace(l) ==
    IF l = <<>> THEN <<>>
    ELSE IF Len(l) = 1 THEN l[1]
    ELSE l[1] \o <<" ">> \o JoinSpace(Tail(l))

DigitVal(c) == (CHOOSE k \in 1..Len(Digits) : Digits[k] = c) - 1

IsDigit(c) == \E k \in 1..Len(Digits) : Digits[k] = c

IntBody(s) == IF s # <<>> /\ Head(s) \in {"-", "+"} THEN Tail(s) ELSE s

\* int(s) succeeds: optional sign, then one or more decimal digits
IntParses(s) == IntBody(s) # <<>> /\ \A k \in 1..Len(IntBody(s)) : IsDigit(IntBody(s)[k])

RECURSIVE DecimalVal(_, _)
DecimalVal(s, acc) ==
    IF s = <<>> THEN acc ELSE DecimalVal(Tail(s), 10 * acc + DigitVal(Head(s)))

\* the value of int(s) when it succeeds
IntOf(s) ==
    IF s # <<>> /\ Head(s) = "-" THEN 0 - DecimalVal(IntBody(s), 0)
    ELSE DecimalVal(IntBody(s), 0)

(***************************************************************************)
(* GPU_MEMORY: the catalog, in its declared (dict insertion) order.        *)
(***************************************************************************)
GPU_MEMORY == <<
    [gpu_type |-> <<"a", "1", "0", "0">>,                          memory |-> 40],
    [gpu_type |-> <<"h", "2", "0", "0">>,                          memory |-> 141],
    [gpu_type |-> <<"v", "1", "0", "0">>,                          memory |-> 16],
    [gpu_type |-> <<"a", "5", "0", "0", "0">>,                     memory |-> 24],
    [gpu_type |-> <<"a", "5", "5", "0", "0">>,                     memory |-> 24],
    [gpu_type |-> <<"l", "4", "0", "s">>,                          memory |-> 48],
    [gpu_type |-> <<"l", "4", "0", "s", "x">>,                     memory |-> 48],
    [gpu_type |-> <<"2", "0", "8", "0", "t", "i">>,                memory |-> 11],
    [gpu_type |-> <<"r", "t", "x", "2", "0", "8", "0", "t", "i">>, memory |-> 11],
    [gpu_type |-> <<"a", "6", "0", "0", "0">>,                     memory |-> 48],
    [gpu_type |-> <<"a", "4", "0">>,                               memory |-> 48],
    [gpu_type |-> <<"r", "t", "x", "3", "0", "9", "0">>,           memory |-> 24],
    [gpu_type |-> <<"r", "t", "x", "4", "0", "9", "0">>,           memory |-> 24],
    [gpu_type |-> <<"t", "i", "t", "a", "n">>,                     memory |-> 24] >>

\* InferFrom without the early return: the last matching entry wins
RECURSIVE InferFrom_LastMatch(_, _)
InferFrom_LastMatch(partition_lower, k) ==
    IF k > Len(GPU_MEMORY) THEN NONE
    ELSE LET rest == InferFrom_LastMatch(partition_lower, k + 1)
         IN  IF rest # NONE THEN rest
             ELSE IF StrContains(GPU_MEMORY[k].gpu_type, partition_lower)
                  THEN SOME(GPU_MEMORY[k].memory)
                  ELSE NONE

\* the `for gpu_type, memory in GPU_MEMORY.items()` loop, from entry k on
RECURSIVE InferFrom(_, _)
InferFrom(partition_lower, k) ==
    IF k > Len(GPU_MEMORY) THEN NONE
    ELSE IF StrContains(GPU_MEMORY[k].gpu_type, partition_lower)
         THEN SOME(GPU_MEMORY[k].memory)
         ELSE InferFrom(partition_lower, k + 1)

infer_gpu_memory(partition_name) == InferFrom(StrLower(partition_name), 1)

(***************************************************************************)
(* The external command: what `sinfo -o "%P %F %C %D %l %T %N"` may print. *)
(* Each line is built from its seven columns; the parser below receives    *)
(* only the resulting text.                                                *)
(***************************************************************************)
N_a5000 == <<"a", "5", "0", "0", "0">>
N_a5500 == <<"a", "5", "5", "0", "0">>
N_l40s == <<"l", "4", "0", "s", "_", "n", "o", "v", "a">>
N_cpu == <<"c", "p", "u", "*">>
N_mixed == <<"A", "4", "0", "-", "a", "1", "0", "0">>
N_h200 == <<"H", "2", "0", "0">>
N_star == <<"g", "*", "p", "u">>

R_0_1_0_1 == <<"0", "/", "1", "/", "0", "/", "1">>
R_0_2_0_2 == <<"0", "/", "2", "/", "0", "/", "2">>
R_0_0_2_2 == <<"0", "/", "0", "/", "2", "/", "2">>
R_2_1_0_3 == <<"2", "/", "1", "/", "0", "/", "3">>
R_1_0_0_1 == <<"1", "/", "0", "/", "0", "/", "1">>
R_1_1_0_5 == <<"1", "/", "1", "/", "0", "/", "5">>
R_3_1_0 == <<"3", "/", "1", "/", "0">>
R_0_x_0_1 == <<"0", "/", "x", "/", "0", "/", "1">>
C_0_8_0_8 == <<"0", "/", "8", "/", "0", "/", "8">>
C_4_4_0_8 == <<"4", "/", "4", "/", "0", "/", "8">>
C_3_4_1_9 == <<"3", "/", "4", "/", "1", "/", "9">>

T_1h == <<"1", ":", "0", "0">>
T_inf == <<"i", "n", "f">>
S_idle == <<"i", "d", "l", "e">>
S_mix == <<"m", "i", "x">>
L_n1 == <<"n", "1">>
L_n2 == <<"n", "2">>

HeaderLine ==
    JoinSpace(<< <<"P">>, <<"N", "(", "A", "/", "I", "/", "O", "/", "T", ")">>,
                 <<"C", "(", "A", "/", "I", "/", "O", "/", "T", ")">>,
                 <<"N">>, <<"T", "L">>, <<"S">>, <<"N", "L">> >>)

DataLine(name, nodes, cpus, count, tl, st, nl) ==
    JoinSpace(<<name, nodes, cpus, count, tl, st, nl>>)

\* rows whose ratio fields are four integers each and that carry seven columns
WellFormedLines == {
    DataLine(N_a5000, R_0_1_0_1, C_0_8_0_8, <<"1">>, T_1h,  S_idle, L_n1),
    DataLine(N_a5500, R_0_2_0_2, C_0_8_0_8, <<"2">>, T_1h,  S_idle, L_n1),
    DataLine(N_a5000, R_0_0_2_2, C_4_4_0_8, <<"2">>, T_inf, S_mix,  L_n2),
    DataLine(N_l40s,  R_2_1_0_3, C_4_4_0_8, <<"3">>, T_1h,  S_mix,  L_n1),
    DataLine(N_l40s,  R_1_0_0_1, C_0_8_0_8, <<"1">>, T_inf, S_mix,  L_n2),
    DataLine(N_cpu,   R_0_1_0_1, C_0_8_0_8, <<"1">>, T_1h,  S_idle, L_n1),
    DataLine(N_mixed, R_0_1_0_1, C_0_8_0_8, <<"1">>, T_1h,  S_idle, L_n2),
    DataLine(N_h200,  R_1_0_0_1, C_4_4_0_8, <<"1">>, T_inf, S_mix,  L_n1),
    DataLine(N_star,  R_0_1_0_1, C_0_8_0_8, <<"1">>, T_inf, S_idle, L_n2) }

\* four integers, but allocated + idle + other # total
InconsistentLines == {
    DataLine(N_a5500, R_1_1_0_5, C_3_4_1_9, <<"5">>, T_1h, S_mix, L_n2) }

\* a three-part ratio, a missing column, a non-integer ratio part
MalformedLines == {
    DataLine(N_a5000, R_3_1_0,   C_0_8_0_8, <<"1">>, T_1h, S_idle, L_n1),
    JoinSpace(<<N_a5000, R_0_1_0_1, C_0_8_0_8, <<"1">>, T_1h>>),
    DataLine(N_a5000, R_0_x_0_1, C_0_8_0_8, <<"1">>, T_1h, S_idle, L_n1) }

DataLines == WellFormedLines \cup InconsistentLines \cup MalformedLines

\* the first line of the output: the column header, or (sinfo -h) already a data row
FirstLines == { HeaderLine,
                DataLine(N_l40s, R_0_2_0_2, C_0_8_0_8, <<"2">>, T_1h, S_idle, L_n1) }

RowSeqs == UNION { [1..n -> DataLines] : n \in 0..MaxRows }

RECURSIVE JoinLines(_)
JoinLines(l) ==
    IF l = <<>> THEN <<>> ELSE l[1] \o <<"\n">> \o JoinLines(Tail(l))

\* complete outputs: nothing at all, or a first line followed by data rows
Outputs == { <<>> } \cup { JoinLines(<<f>> \o rows) : f \in FirstLines, rows \in RowSeqs }

\* what a command that failed or was killed at the deadline may have printed
PartialOutputs == { <<>>, JoinLines(<<HeaderLine,
                      DataLine(N_a5000, R_0_1_0_1, C_0_8_0_8, <<"1">>, T_1h, S_idle, L_n1)>>) }

\* values the caller may pass as min_gpu_memory
Thresholds == {0 - 1, 0, 24, 48}

(***************************************************************************)
(* get_detailed_partition_info                                             *)
(***************************************************************************)
\* str.strip(): leading and trailing whitespace removed
StrStrip(s) ==
    LET inked == {k \in 1..Len(s) : s[k] \notin Whitespace}
    IN  IF inked = {} THEN <<>>
        ELSE SubSeq(s, CHOOSE k \in inked : \A j \in inked : k <= j,
                       CHOOSE k \in inked : \A j \in inked : k >= j)

\* lines = result.stdout.strip().split('\n')
SplitLines(text) == SplitOn(StrStrip(text), "\n")

NoRow == [partition_name |-> <<>>,
          allocated_nodes |-> 0, idle_nodes |-> 0, other_nodes |-> 0, total_nodes |-> 0,
          allocated_cpus |-> 0, idle_cpus |-> 0, other_cpus |-> 0, total_cpus |-> 0,
          nodes_count |-> 0, timelimit |-> <<>>, state |-> <<>>, nodelist |-> <<>>]

AllInts(pieces) == \A k \in 1..Len(pieces) : IntParses(pieces[k])

\* the body of the `for line in lines[1:]` loop up to the aggregation:
\* "skip" (the row is passed over), "raise" (int() raises ValueError) or "row"
ParseRow(line) ==
    LET parts == SplitWs(line)
        node_info == SplitOn(parts[2], "/")
        cpu_info == SplitOn(parts[3], "/")
    IN  IF Len(parts) < 7 THEN [outcome |-> "skip", row |-> NoRow]
        ELSE IF Len(node_info) # 4 THEN [outcome |-> "skip", row |-> NoRow]
        ELSE IF ~AllInts(node_info) THEN [outcome |-> "raise", row |-> NoRow]
        ELSE IF Len(cpu_info) # 4 THEN [outcome |-> "skip", row |-> NoRow]
        ELSE IF ~AllInts(cpu_info) THEN [outcome |-> "raise", row |-> NoRow]
        ELSE IF ~IntParses(parts[4]) THEN [outcome |-> "raise", row |-> NoRow]
        ELSE [outcome |-> "row",
              row |-> [partition_name |-> StrRemoveChar(parts[1], "*"),
                       allocated_nodes |-> IntOf(node_info[1]),
                       idle_nodes |-> IntOf(node_info[2]),
                       other_nodes |-> IntOf(node_info[3]),
                       total_nodes |-> IntOf(node_info[4]),
                       allocated_cpus |-> IntOf(cpu_info[1]),
                       idle_cpus |-> IntOf(cpu_info[2]),
                       other_cpus |-> IntOf(cpu_info[3]),
                       total_cpus |-> IntOf(cpu_info[4]),
                       nodes_count |-> IntOf(parts[4]),
                       timelimit |-> parts[5],
                       state |-> parts[6],
                       nodelist |-> JoinSpace(SubSeq(parts, 7, Len(parts)))]]

\* NewAggregate that stores the row's counters in the new entry
NewAggregate_Seeded(row) ==
    [name |-> row.partition_name,
     allocated_nodes |-> row.allocated_nodes, idle_nodes |-> row.idle_nodes,
     other_nodes |-> row.other_nodes, total_nodes |-> row.total_nodes,
     allocated_cpus |-> row.allocated_cpus, idle_cpus |-> row.idle_cpus,
     other_cpus |-> row.other_cpus, total_cpus |-> row.total_cpus,
     timelimit |-> row.timelimit, states |-> <<>>, nodelists |-> <<>>]

\* the dict entry created for a partition name seen for the first time
NewAggregate(row) ==
    [name |-> row.partition_name,
     allocated_nodes |-> 0, idle_nodes |-> 0, other_nodes |-> 0, total_nodes |-> 0,
     allocated_cpus |-> 0, idle_cpus |-> 0, other_cpus |-> 0, total_cpus |-> 0,
     timelimit |-> row.timelimit, states |-> <<>>, nodelists |-> <<>>]

\* Accumulate that also overwrites the time limit with the row's
Accumulate_LastLimit(agg, row) ==
    [agg EXCEPT !.allocated_nodes = @ + row.allocated_nodes,
                !.idle_nodes = @ + row.idle_nodes,
                !.other_nodes = @ + row.other_nodes,
                !.total_nodes = @ + row.total_nodes,
                !.allocated_cpus = @ + row.allocated_cpus,
                !.idle_cpus = @ + row.idle_cpus,
                !.other_cpus = @ + row.other_cpus,
                !.total_cpus = @ + row.total_cpus,
                !.timelimit = row.timelimit,
                !.states = Append(@, row.state),
                !.nodelists = Append(@, row.nodelist)]

\* Accumulate with `=` in place of `+=`
Accumulate_Assign(agg, row) ==
    [agg EXCEPT !.allocated_nodes = row.allocated_nodes,
                !.idle_nodes = row.idle_nodes,
                !.other_nodes = row.other_nodes,
                !.total_nodes = row.total_nodes,
                !.allocated_cpus = row.allocated_cpus,
                !.idle_cpus = row.idle_cpus,
                !.other_cpus = row.other_cpus,
                !.total_cpus = row.total_cpus,
                !.states = Append(@, row.state),
                !.nodelists = Append(@, row.nodelist)]

\* the `+=` and append statements
Accumulate(agg, row) ==
    [agg EXCEPT !.allocated_nodes = @ + row.allocated_nodes,
                !.idle_nodes = @ + row.idle_nodes,
                !.other_nodes = @ + row.other_nodes,
                !.total_nodes = @ + row.total_nodes,
                !.allocated_cpus = @ + row.allocated_cpus,
                !.idle_cpus = @ + row.idle_cpus,
                !.other_cpus = @ + row.other_cpus,
                !.total_cpus = @ + row.total_cpus,
                !.states = Append(@, row.state),
                !.nodelists = Append(@, row.nodelist)]

HasKey(dict, name) == \E k \in 1..Len(dict) : dict[k].name = name

KeyIndex(dict, name) == CHOOSE k \in 1..Len(dict) : dict[k].name = name

\* aggregate one parsed row into the dict
Aggregate(dict, row) ==
    LET base == IF HasKey(dict, row.partition_name) THEN dict
                ELSE Append(dict, NewAggregate(row))
        k == KeyIndex(base, row.partition_name)
    IN  [base EXCEPT ![k] = Accumulate(@, row)]

\* index (1-based) of the first line the row loop visits: lines[1:]
FirstRowIndex == 2

EmptySummary ==
    [kind |-> "none", error |-> NONE, gpu_heading |-> "none", groups |-> <<>>,
     shown_types |-> NONE, no_matches |-> FALSE, cpu_section |-> NONE, table |-> NONE]

\* the invocations that may run at the same time (request handlers of the UI)
Invocations == {1, 2}


(***************************************************************************)
(* generate_slurm_script: values, arguments and pure parts.                *)
(* Text arguments are character sequences; drop-down choices that the code  *)
(* only tests for equality and interpolates are strings; a numeric argument *)
(* is a tagged value, so that int() can fail or truncate as Python's does.  *)
(***************************************************************************)
\* Python values handed to int(): None, an int, a float (in tenths), a str
PyNone == [t |-> "none", n |-> 0, s |-> <<>>]
PyNum(k) == [t |-> "int", n |-> k, s |-> <<>>]
PyFloat(tenths) == [t |-> "float", n |-> tenths, s |-> <<>>]
PyText(chars) == [t |-> "str", n |-> 0, s |-> chars]

\* int(x) raises TypeError (None) or ValueError (text that is not a number)
IntRaises(x) == \/ x.t = "none"
                \/ x.t = "str" /\ ~IntParses(StrStrip(x.s))

\* the value of int(x) when it does not raise: a float is truncated toward zero
IntValue(x) ==
    IF x.t = "int" THEN x.n
    ELSE IF x.t = "float"
         THEN (IF x.n >= 0 THEN x.n \div 10 ELSE 0 - ((0 - x.n) \div 10))
    ELSE IntOf(StrStrip(x.s))

\* str.endswith(suffix), str.startswith(prefix)
EndsWith(s, suffix) ==
    Len(s) >= Len(suffix) /\ SubSeq(s, Len(s) - Len(suffix) + 1, Len(s)) = suffix

StartsWith(s, prefix) == Len(s) >= Len(prefix) /\ SubSeq(s, 1, Len(prefix)) = prefix

\* `not s or not s.strip()` for a text argument
Blank(s) == s = <<>> \/ StrStrip(s) = <<>>

CommonExtensions ==
    { <<".", "p", "y">>, <<".", "s", "h">>, <<".", "R">>, <<".", "m">>,
      <<".", "c", "p", "p">>, <<".", "c">>, <<".", "f", "9", "0">>, <<".", "f">>,
      <<".", "p", "l">>, <<".", "r", "b">>, <<".", "g", "o">>, <<".", "r", "s">> }

PathPrefixes == { <<".", "/">>, <<"/">> }

MaxJobName == 64

\* argument values of the modelled calls
JobNames == { <<" ">>, <<"j", "o", "b">>, [k \in 1..(MaxJobName + 1) |-> "x"] }
ProgramFiles == { <<>>, <<"r", "u", "n", ".", "p", "y">>, <<"r", "u", "n">> }
WallTimes == { <<>>,
               <<"0", "1", ":", "0", "0", ":", "0", "0">>,
               <<"1", ":", "0", "0">>,
               <<"a", "a", ":", "0", "0", ":", "0", "0">>,
               <<"0", "1", ":", "6", "0", ":", "0", "0">> }
ArrayIndices == { <<>>, <<"a", "-", "b">>, <<"1", "-", "3">> }
NodeValues == {PyNum(1), PyNum(0), PyFloat(15), PyNone, PyText(<<"a", "b", "c">>)}
GpuRequests == { [gpu_count |-> PyNum(0), partition |-> "Default"],
                 [gpu_count |-> PyNum(1), partition |-> "Default"],
                 [gpu_count |-> PyNum(1), partition |-> "gpu"],
                 [gpu_count |-> PyNone, partition |-> "Default"] }
Dependencies == { [dependency_type |-> "None", dependency_job_ids |-> <<>>],
                  [dependency_type |-> "afterok", dependency_job_ids |-> <<>>],
                  [dependency_type |-> "afterok", dependency_job_ids |-> <<"1", "2">>] }
MailTypes == {"None", "END"}
TaskValues == {PyNum(1), PyNone}

\* the arguments of one call; the ones not drawn above keep the form's defaults
GenArgs ==
    { [job_name |-> j, account |-> <<>>, partition |-> g.partition, nodes |-> n,
       ntasks_per_node |-> t, cpus_per_task |-> PyNum(1), memory |-> "Default",
       walltime |-> w, program_file |-> f, program_args |-> <<>>,
       gpu_count |-> g.gpu_count, output_file |-> <<>>, error_file |-> <<>>,
       combine_output |-> TRUE, array_indices |-> a,
       dependency_type |-> d.dependency_type,
       dependency_job_ids |-> d.dependency_job_ids,
       mail_type |-> m, mail_user |-> <<>>, export_env |-> "Default",
       nodelist |-> <<>>, signal_time |-> PyNum(0)] :
      j \in JobNames, f \in ProgramFiles, w \in WallTimes, n \in NodeValues,
      g \in GpuRequests, a \in ArrayIndices, d \in Dependencies,
      m \in MailTypes, t \in TaskValues }

NoArgs ==
    [job_name |-> <<>>, account |-> <<>>, partition |-> "Default", nodes |-> PyNum(1),
     ntasks_per_node |-> PyNum(1), cpus_per_task |-> PyNum(1), memory |-> "Default",
     walltime |-> <<>>, program_file |-> <<>>, program_args |-> <<>>,
     gpu_count |-> PyNum(0), output_file |-> <<>>, error_file |-> <<>>,
     combine_output |-> TRUE, array_indices |-> <<>>, dependency_type |-> "None",
     dependency_job_ids |-> <<>>, mail_type |-> "None", mail_user |-> <<>>,
     export_env |-> "Default", nodelist |-> <<>>, signal_time |-> PyNum(0)]

NoResult == [kind |-> "none", lines |-> <<>>]

IdleGen == [pc |-> "idle", args |-> NoArgs, errors |-> <<>>, warnings |-> <<>>,
            script |-> <<>>, result |-> NoResult]

\* the checks of lines 512-565, each yielding what it appends to errors and warnings
Found(errs, warns) == [errors |-> errs, warnings |-> warns]

CheckJobName(a) ==
    IF Blank(a.job_name) THEN Found(<<"Job Name is required">>, <<>>)
    ELSE IF Len(StrStrip(a.job_name)) > MaxJobName
         THEN Found(<<>>, <<"Job Name is longer than 64 characters (may be truncated)">>)
    ELSE Found(<<>>, <<>>)

CheckProgramFile(a) ==
    IF Blank(a.program_file) THEN Found(<<"Program/Script to Run is required">>, <<>>)
    ELSE IF ~(\/ \E ext \in CommonExtensions : EndsWith(StrStrip(a.program_file), ext)
              \/ \E pre \in PathPrefixes : StartsWith(StrStrip(a.program_file), pre))
         THEN Found(<<>>, <<"Program file doesn't have a common extension - ensure it's executable">>)
    ELSE Found(<<>>, <<>>)

CheckWallTime(a) ==
    IF a.walltime = <<>> THEN Found(<<"Wall Time is required">>, <<>>)
    ELSE LET parts == SplitOn(a.walltime, ":")
         IN  IF Len(parts) # 3
                 THEN Found(<<"Wall Time must be in HH:MM:SS format">>, <<>>)
             ELSE IF \E k \in 1..3 : ~IntParses(StrStrip(parts[k]))
                 THEN Found(<<"Wall Time must contain only numbers and colons (HH:MM:SS)">>, <<>>)
             ELSE LET hours == IntOf(StrStrip(parts[1]))
                      minutes == IntOf(StrStrip(parts[2]))
                      seconds == IntOf(StrStrip(parts[3]))
                  IN  IF \/ hours < 0
                         \/ minutes < 0 \/ minutes >= 60
                         \/ seconds < 0 \/ seconds >= 60
                          THEN Found(<<"Invalid time values in Wall Time">>, <<>>)
                      ELSE Found(<<>>, <<>>)

CheckNodes(a) ==
    IF IntRaises(a.nodes) THEN Found(<<"Invalid nodes value">>, <<>>)
    ELSE IF IntValue(a.nodes) < 1 THEN Found(<<"Number of nodes must be at least 1">>, <<>>)
    ELSE Found(<<>>, <<>>)

CheckGpuCount(a) ==
    IF IntRaises(a.gpu_count) THEN Found(<<"Invalid GPU count value">>, <<>>)
    ELSE IF IntValue(a.gpu_count) > 0 /\ (a.partition = "" \/ a.partition = "Default")
         THEN Found(<<>>, <<"GPU requested but no GPU partition selected">>)
    ELSE Found(<<>>, <<>>)

CheckArrayIndices(a) ==
    IF ~Blank(a.array_indices)
       /\ ~\E k \in 1..Len(a.array_indices) : IsDigit(a.array_indices[k])
        THEN Found(<<"Array indices must contain numbers">>, <<>>)
    ELSE Found(<<>>, <<>>)

CheckDependency(a) ==
    IF a.dependency_type # "None" /\ Blank(a.dependency_job_ids)
        THEN Found(<<"Dependency Job IDs required when dependency type is selected">>, <<>>)
    ELSE Found(<<>>, <<>>)

CheckMail(a) ==
    IF a.mail_type # "None" /\ Blank(a.mail_user)
        THEN Found(<<>>, <<"Email address recommended when email notifications are enabled">>)
    ELSE Found(<<>>, <<>>)

\* the checks in the order the code runs them
Checks(a) ==
    <<CheckJobName(a), CheckProgramFile(a), CheckWallTime(a), CheckNodes(a),
      CheckGpuCount(a), CheckArrayIndices(a), CheckDependency(a), CheckMail(a)>>

RECURSIVE Appended(_, _)
Appended(found, field) ==
    IF found = <<>> THEN <<>>
    ELSE (IF field = "errors" THEN Head(found).errors ELSE Head(found).warnings)
         \o Appended(Tail(found), field)

\* one line of the returned text
Line(kind, text, choice, arg, num) ==
    [kind |-> kind, text |-> text, choice |-> choice, arg |-> arg, num |-> num]

Blank_Line == Line("blank", "", "", <<>>, 0)
Heading(text) == Line("heading", text, "", <<>>, 0)
Bullet(msg) == Line("bullet", msg, "", <<>>, 0)
Comment(text) == Line("comment", text, "", <<>>, 0)
Directive(option, choice, arg, num) == Line("#SBATCH", option, choice, arg, num)

Bullets(msgs) == [k \in 1..Len(msgs) |-> Bullet(msgs[k])]

\* lines 569-572: the error report
ErrorMessage(errs, warns) ==
    <<Heading("ERRORS FOUND:")>> \o Bullets(errs)
    \o (IF warns # <<>> THEN <<Blank_Line, Heading("WARNINGS:")>> \o Bullets(warns)
        ELSE <<>>)

\* lines 574-589: the head of the script, the warnings as comment lines
ScriptHead(warns) ==
    <<Line("shebang", "#!/bin/bash", "", <<>>, 0), Blank_Line,
      Comment("Slurm job script generated by GUI")>>
    \o (IF warns # <<>>
        THEN <<Line("comment_heading", "WARNINGS:", "", <<>>, 0)>>
             \o [k \in 1..Len(warns) |-> Line("comment_bullet", warns[k], "", <<>>, 0)]
             \o <<Comment("")>>
        ELSE <<>>)
    \o <<Blank_Line>>

\* lines 591-601: job name, time, account, partition
RequiredDirectives(a) ==
    <<Directive("--job-name=", "", a.job_name, 0), Directive("--time=", "", a.walltime, 0)>>
    \o (IF ~Blank(a.account) THEN <<Directive("--account=", "", a.account, 0)>> ELSE <<>>)
    \o (IF a.partition # "" /\ a.partition # "Default"
        THEN <<Directive("--partition=", a.partition, <<>>, 0)>> ELSE <<>>)

\* the int() conversions of lines 605-609 raise
ResourcesRaise(a) ==
    \/ IntRaises(a.nodes) \/ IntRaises(a.ntasks_per_node) \/ IntRaises(a.cpus_per_task)
    \/ IntRaises(a.gpu_count) \/ IntRaises(a.signal_time)

\* lines 611-623: nodes, tasks, cpus, memory, gpus
ResourceDirectives(a) ==
    <<Directive("--nodes=", "", <<>>, IntValue(a.nodes))>>
    \o (IF IntValue(a.ntasks_per_node) > 0
        THEN <<Directive("--ntasks-per-node=", "", <<>>, IntValue(a.ntasks_per_node))>>
        ELSE <<>>)
    \o (IF IntValue(a.cpus_per_task) > 0
        THEN <<Directive("--cpus-per-task=", "", <<>>, IntValue(a.cpus_per_task))>>
        ELSE <<>>)
    \o (IF a.memory # "" /\ a.memory # "Default"
        THEN <<Directive("--mem=", a.memory, <<>>, 0)>> ELSE <<>>)
    \o (IF IntValue(a.gpu_count) > 0
        THEN <<Directive("--gres=gpu:", "", <<>>, IntValue(a.gpu_count))>> ELSE <<>>)

\* lines 627-661: output files, array, dependency, mail, export, nodelist, signal
OptionalDirectives(a) ==
    LET output_name == IF StrStrip(a.output_file) # <<>> THEN a.output_file
                       ELSE a.job_name \o <<"_", "%", "j", ".", "o", "u", "t">>
        error_name == IF StrStrip(a.error_file) # <<>> THEN a.error_file
                      ELSE a.job_name \o <<"_", "%", "j", ".", "e", "r", "r">>
    IN  <<Directive("--output=", "", output_name, 0)>>
        \o (IF ~a.combine_output THEN <<Directive("--error=", "", error_name, 0)>> ELSE <<>>)
        \o (IF ~Blank(a.array_indices)
            THEN <<Directive("--array=", "", a.array_indices, 0)>> ELSE <<>>)
        \o (IF a.dependency_type # "None" /\ ~Blank(a.dependency_job_ids)
            THEN <<Directive("--dependency=", a.dependency_type, a.dependency_job_ids, 0)>>
            ELSE <<>>)
        \o (IF a.mail_type # "None"
            THEN <<Directive("--mail-type=", a.mail_type, <<>>, 0)>>
                 \o (IF ~Blank(a.mail_user)
                     THEN <<Directive("--mail-user=", "", a.mail_user, 0)>> ELSE <<>>)
            ELSE <<>>)
        \o (IF a.export_env # "Default"
            THEN <<Directive("--export=", a.export_env, <<>>, 0)>> ELSE <<>>)
        \o (IF ~Blank(a.nodelist) THEN <<Directive("--nodelist=", "", a.nodelist, 0)>>
            ELSE <<>>)
        \o (IF IntValue(a.signal_time) > 0
            THEN <<Directive("--signal=B:USR1@", "", <<>>, IntValue(a.signal_time))>>
            ELSE <<>>)

\* lines 663-697: the fixed comments and the command line
ScriptTail(a) ==
    <<Blank_Line,
      Comment("Available Slurm environment variables:"),
      Comment("$SLURM_JOB_NAME - Job name"),
      Comment("$SLURM_JOB_ID - Job ID"),
      Comment("$SLURM_SUBMIT_DIR - Submit directory"),
      Comment("$SLURM_SUBMIT_HOST - Submit host"),
      Comment("$SLURM_JOB_NODELIST - Node list"),
      Comment("$SLURM_JOB_PARTITION - Partition name"),
      Comment("$SLURM_JOB_NUM_NODES - Number of allocated nodes"),
      Comment("$SLURM_NTASKS - Number of processes"),
      Comment("$SLURM_TASKS_PER_NODE - Processes per node"),
      Comment("$SLURM_ARRAY_TASK_ID - Array task ID (if array job)"),
      Blank_Line,
      Comment("Change to the directory from which the job was submitted"),
      Line("command", "cd $SLURM_SUBMIT_DIR", "", <<>>, 0),
      Blank_Line,
      Comment("Load required modules here"),
      Comment("module load python/3.9"),
      Comment("module load gcc/9.3.0"),
      Blank_Line,
      Comment("Run the program"),
      Line("command", "python ", "",
           (IF \E pre \in PathPrefixes : StartsWith(a.program_file, pre)
            THEN a.program_file ELSE <<".", "/">> \o a.program_file)
           \o (IF ~Blank(a.program_args) THEN <<" ">> \o a.program_args ELSE <<>>),
           0)>>

\* the locals of an invocation that has not been called yet
IdleCall ==
    [pc |-> "idle", min_gpu_memory |-> 0, peer_pc |-> "idle", fetched |-> "none",
     stdout |-> <<>>, lines |-> <<>>, idx |-> 0, partitions |-> <<>>,
     ret_partitions |-> NONE, error |-> NONE, gpu_partitions |-> <<>>,
     cpu_partitions |-> <<>>, filtered_results |-> <<>>, summary |-> EmptySummary]

Init ==
    /\ gen = IdleGen
    /\ calls = [i \in Invocations |-> IdleCall]
    /\ heap = [i \in Invocations |-> <<>>]
    /\ pc = "idle"
    /\ min_gpu_memory = 0
    /\ sinfo_calls = 0
    /\ fetched = "none"
    /\ stdout = <<>>
    /\ lines = <<>>
    /\ idx = 0
    /\ partitions = <<>>
    /\ ret_partitions = NONE
    /\ error = NONE
    /\ gpu_partitions = <<>>
    /\ cpu_partitions = <<>>
    /\ filtered_results = <<>>
    /\ summary = EmptySummary

\* get_available_resources(min_gpu_memory) is called
Call ==
    /\ pc = "idle"
    /\ \E m \in Thresholds : min_gpu_memory' = m
    /\ pc' = "fetch"
    /\ UNCHANGED <<sinfo_calls, fetched, stdout, lines, idx, partitions, ret_partitions,
                   error, gpu_partitions, cpu_partitions, filtered_results, summary>>
    /\ UNCHANGED <<calls, heap, gen>>

\* return None, <message>
ReturnError(msg) ==
    /\ ret_partitions' = NONE
    /\ error' = SOME(msg)
    /\ pc' = "returned"

\* subprocess.run returns with exit status 0
FetchOk ==
    /\ pc = "fetch"
    /\ sinfo_calls' = sinfo_calls + 1
    /\ fetched' = "ok"
    /\ \E out \in Outputs :
          /\ stdout' = out
          /\ IF Len(SplitLines(out)) < 2
             THEN /\ ReturnError("No sinfo output")
                  /\ UNCHANGED <<lines, idx>>
             ELSE /\ lines' = SplitLines(out)
                  /\ idx' = FirstRowIndex
                  /\ pc' = "rows"
                  /\ UNCHANGED <<ret_partitions, error>>
    /\ UNCHANGED <<min_gpu_memory, partitions, gpu_partitions, cpu_partitions,
                   filtered_results, summary>>
    /\ UNCHANGED <<calls, heap, gen>>

\* FetchNonZero without the returncode test: the output is parsed all the same
FetchNonZero_Ignored ==
    /\ pc = "fetch"
    /\ sinfo_calls' = sinfo_calls + 1
    /\ fetched' = "nonzero"
    /\ \E out \in PartialOutputs :
          /\ stdout' = out
          /\ IF Len(SplitLines(out)) < 2
             THEN /\ ReturnError("No sinfo output")
                  /\ UNCHANGED <<lines, idx>>
             ELSE /\ lines' = SplitLines(out)
                  /\ idx' = FirstRowIndex
                  /\ pc' = "rows"
                  /\ UNCHANGED <<ret_partitions, error>>
    /\ UNCHANGED <<min_gpu_memory, partitions, gpu_partitions, cpu_partitions,
                   filtered_results, summary>>
    /\ UNCHANGED <<calls, heap, gen>>

\* subprocess.run returns with a non-zero exit status
FetchNonZero ==
    /\ pc = "fetch"
    /\ sinfo_calls' = sinfo_calls + 1
    /\ fetched' = "nonzero"
    /\ \E out \in PartialOutputs : stdout' = out
    /\ ReturnError("Error running sinfo command")
    /\ UNCHANGED <<min_gpu_memory, lines, idx, partitions, gpu_partitions, cpu_partitions,
                   filtered_results, summary>>
    /\ UNCHANGED <<calls, heap, gen>>

\* subprocess.run raises TimeoutExpired after 10 seconds
FetchTimeout ==
    /\ pc = "fetch"
    /\ sinfo_calls' = sinfo_calls + 1
    /\ fetched' = "timeout"
    /\ \E out \in PartialOutputs : stdout' = out
    /\ ReturnError("sinfo command timed out")
    /\ UNCHANGED <<min_gpu_memory, lines, idx, partitions, gpu_partitions, cpu_partitions,
                   filtered_results, summary>>
    /\ UNCHANGED <<calls, heap, gen>>

\* subprocess.run raises another exception (the command cannot be launched)
FetchLaunchFailure ==
    /\ pc = "fetch"
    /\ sinfo_calls' = sinfo_calls + 1
    /\ fetched' = "launch"
    /\ stdout' = <<>>
    /\ ReturnError("Error: launch")
    /\ UNCHANGED <<min_gpu_memory, lines, idx, partitions, gpu_partitions, cpu_partitions,
                   filtered_results, summary>>
    /\ UNCHANGED <<calls, heap, gen>>

\* one iteration of `for line in lines[1:]`
ParseLine ==
    /\ pc = "rows"
    /\ idx <= Len(lines)
    /\ LET r == ParseRow(lines[idx])
       IN  IF r.outcome = "raise"
           THEN /\ ReturnError("Error: invalid literal for int()")
                /\ UNCHANGED <<idx, partitions>>
           ELSE /\ idx' = idx + 1
                /\ partitions' = IF r.outcome = "row" THEN Aggregate(partitions, r.row)
                                 ELSE partitions
                /\ UNCHANGED <<pc, ret_partitions, error>>
    /\ UNCHANGED <<min_gpu_memory, sinfo_calls, fetched, stdout, lines, gpu_partitions,
                   cpu_partitions, filtered_results, summary>>
    /\ UNCHANGED <<calls, heap, gen>>

\* return list(partitions.values()), None
ParseDone ==
    /\ pc = "rows"
    /\ idx > Len(lines)
    /\ ret_partitions' = SOME(partitions)
    /\ error' = NONE
    /\ pc' = "returned"
    /\ UNCHANGED <<min_gpu_memory, sinfo_calls, fetched, stdout, lines, idx, partitions,
                   gpu_partitions, cpu_partitions, filtered_results, summary>>
    /\ UNCHANGED <<calls, heap, gen>>

\* if error: return the error message
ErrorReturn ==
    /\ pc = "returned"
    /\ error # NONE
    /\ summary' = [EmptySummary EXCEPT !.kind = "error", !.error = error]
    /\ pc' = "done"
    /\ UNCHANGED <<min_gpu_memory, sinfo_calls, fetched, stdout, lines, idx, partitions,
                   ret_partitions, error, gpu_partitions, cpu_partitions, filtered_results>>
    /\ UNCHANGED <<calls, heap, gen>>

(***************************************************************************)
(* get_available_resources: categorise and sort                            *)
(***************************************************************************)
\* available_nodes_of with the other nodes added instead of subtracted
available_nodes_of_PlusOther(p) ==
    Max(0, p.total_nodes - p.allocated_nodes + p.other_nodes)

\* available_nodes = max(0, total_nodes - allocated_nodes - other_nodes)
available_nodes_of(p) == Max(0, p.total_nodes - p.allocated_nodes - p.other_nodes)

\* the three keys the categorising loop stores into the partition dict
Enrich(p) ==
    [name |-> p.name,
     allocated_nodes |-> p.allocated_nodes, idle_nodes |-> p.idle_nodes,
     other_nodes |-> p.other_nodes, total_nodes |-> p.total_nodes,
     allocated_cpus |-> p.allocated_cpus, idle_cpus |-> p.idle_cpus,
     other_cpus |-> p.other_cpus, total_cpus |-> p.total_cpus,
     timelimit |-> p.timelimit, states |-> p.states, nodelists |-> p.nodelists,
     available_nodes |-> available_nodes_of(p),
     availability_score |-> IF p.total_nodes > 0 THEN available_nodes_of(p) ELSE 0,
     gpu_memory |-> infer_gpu_memory(p.name)]

\* `if gpu_mem:` is false for None and for 0
Truthy(gpu_mem) == gpu_mem # NONE /\ gpu_mem[1] # 0

\* gpu_partitions[gpu_mem].append(partition) on a defaultdict(list)
DictAppend(dict, key, p) ==
    IF key \in DOMAIN dict THEN [dict EXCEPT ![key] = Append(@, p)]
    ELSE [k \in DOMAIN dict \cup {key} |-> IF k = key THEN <<p>> ELSE dict[k]]

\* CategorizeFrom with the cpu_partitions.append outside the else branch
RECURSIVE CategorizeFrom_NoElse(_, _, _, _)
CategorizeFrom_NoElse(plist, k, gpus, cpus) ==
    IF k > Len(plist) THEN [gpu |-> gpus, cpu |-> cpus]
    ELSE LET p == Enrich(plist[k])
         IN  IF Truthy(p.gpu_memory)
             THEN CategorizeFrom_NoElse(plist, k + 1,
                                        DictAppend(gpus, p.gpu_memory[1], p),
                                        Append(cpus, p))
             ELSE CategorizeFrom_NoElse(plist, k + 1, gpus, Append(cpus, p))

\* the `for partition in partitions` loop from position k on
RECURSIVE CategorizeFrom(_, _, _, _)
CategorizeFrom(plist, k, gpus, cpus) ==
    IF k > Len(plist) THEN [gpu |-> gpus, cpu |-> cpus]
    ELSE LET p == Enrich(plist[k])
         IN  IF Truthy(p.gpu_memory)
             THEN CategorizeFrom(plist, k + 1, DictAppend(gpus, p.gpu_memory[1], p), cpus)
             ELSE CategorizeFrom(plist, k + 1, gpus, Append(cpus, p))

\* key=lambda x: (x['availability_score'], x['idle_nodes']), compared as tuples
AvailabilityKeyLess(a, b) ==
    \/ a.availability_score < b.availability_score
    \/ /\ a.availability_score = b.availability_score
       /\ a.idle_nodes < b.idle_nodes

\* InsertByAvailability that puts x before the elements of equal key
InsertByAvailability_BeforeEqual(sorted, x) ==
    LET notlarger == {k \in 1..Len(sorted) : ~AvailabilityKeyLess(x, sorted[k])}
        at == IF notlarger = {} THEN Len(sorted) + 1
              ELSE CHOOSE k \in notlarger : \A j \in notlarger : k <= j
    IN  SubSeq(sorted, 1, at - 1) \o <<x>> \o SubSeq(sorted, at, Len(sorted))

\* position of x in a list already sorted descending: after every element whose
\* key is not smaller (list.sort is stable, also with reverse=True)
InsertByAvailability(sorted, x) ==
    LET smaller == {k \in 1..Len(sorted) : AvailabilityKeyLess(sorted[k], x)}
        at == IF smaller = {} THEN Len(sorted) + 1
              ELSE CHOOSE k \in smaller : \A j \in smaller : k <= j
    IN  SubSeq(sorted, 1, at - 1) \o <<x>> \o SubSeq(sorted, at, Len(sorted))

RECURSIVE SortByAvailabilityFrom(_, _, _)
SortByAvailabilityFrom(l, k, acc) ==
    IF k > Len(l) THEN acc
    ELSE SortByAvailabilityFrom(l, k + 1, InsertByAvailability(acc, l[k]))

\* list.sort(key=(availability_score, idle_nodes), reverse=True)
SortByAvailability(l) == SortByAvailabilityFrom(l, 1, <<>>)

Categorize ==
    /\ pc = "returned"
    /\ error = NONE
    /\ LET plist == ret_partitions[1]
           cat == CategorizeFrom(plist, 1, <<>>, <<>>)
       IN  /\ partitions' = [k \in 1..Len(plist) |-> Enrich(plist[k])]
           /\ gpu_partitions' = [m \in DOMAIN cat.gpu |-> SortByAvailability(cat.gpu[m])]
           /\ cpu_partitions' = SortByAvailability(cat.cpu)
    /\ filtered_results' = <<>>
    /\ pc' = "gpu_section"
    /\ UNCHANGED <<min_gpu_memory, sinfo_calls, fetched, stdout, lines, idx,
                   ret_partitions, error, summary>>
    /\ UNCHANGED <<calls, heap, gen>>

(***************************************************************************)
(* get_available_resources: the GPU section                                *)
(***************************************************************************)
\* partition_total_gpu_memory = gpu_mem * (total_nodes - allocated_nodes)
partition_total_gpu_memory(gpu_mem, p) == gpu_mem * (p.total_nodes - p.allocated_nodes)

\* PassesFilter with the comparison turned round
PassesFilter_Reversed(min, gpu_mem, p) ==
    min = 0 \/ partition_total_gpu_memory(gpu_mem, p) <= min

\* if min_gpu_memory == 0 or partition_total_gpu_memory >= min_gpu_memory
PassesFilter(min, gpu_mem, p) ==
    min = 0 \/ partition_total_gpu_memory(gpu_mem, p) >= min

RECURSIVE FilterPartitions(_, _, _)
FilterPartitions(min, gpu_mem, plist) ==
    IF plist = <<>> THEN <<>>
    ELSE IF PassesFilter(min, gpu_mem, Head(plist))
         THEN <<Head(plist)>> \o FilterPartitions(min, gpu_mem, Tail(plist))
         ELSE FilterPartitions(min, gpu_mem, Tail(plist))

DominantState(p) ==
    IF p.idle_nodes > p.allocated_nodes THEN "idle"
    ELSE IF p.idle_nodes > 0 THEN "mix" ELSE "alloc"

\* the figures printed on the card of one GPU partition
GpuCard(gpu_mem, p) ==
    [name |-> p.name,
     dominant_state |-> DominantState(p),
     partition_available_nodes |-> p.total_nodes - p.allocated_nodes,
     partition_available_gpu_memory |-> gpu_mem * (p.total_nodes - p.allocated_nodes),
     timelimit |-> p.timelimit,
     idle_nodes |-> p.idle_nodes,
     allocated_nodes |-> p.allocated_nodes,
     total_nodes |-> p.total_nodes,
     allocated_cpus |-> p.allocated_cpus,
     total_cpus |-> p.total_cpus,
     available_cpus |-> p.idle_cpus
         + (p.total_cpus - p.allocated_cpus - p.idle_cpus - p.other_cpus)]

\* `if idle_nodes > 0 or (total_nodes - allocated_nodes) > 0`
IsRanked(p) == p.idle_nodes > 0 \/ (p.total_nodes - p.allocated_nodes) > 0

\* the dict appended to filtered_results; the percentage is kept as the exact
\* fraction <<numerator, denominator>> of available_nodes / total_nodes * 100
RankedRecord(gpu_mem, p) ==
    [partition |-> p.name,
     gpu_memory |-> gpu_mem,
     total_nodes |-> p.total_nodes,
     available_nodes |-> p.total_nodes - p.allocated_nodes,
     idle_nodes |-> p.idle_nodes,
     allocated_nodes |-> p.allocated_nodes,
     timelimit |-> p.timelimit,
     total_available_gpu_memory |-> gpu_mem * (p.total_nodes - p.allocated_nodes),
     availability_pct |-> IF p.total_nodes > 0
                          THEN <<(p.total_nodes - p.allocated_nodes) * 100, p.total_nodes>>
                          ELSE <<0, 1>>]

RECURSIVE RankedOf(_, _)
RankedOf(gpu_mem, plist) ==
    IF plist = <<>> THEN <<>>
    ELSE IF IsRanked(Head(plist))
         THEN <<RankedRecord(gpu_mem, Head(plist))>> \o RankedOf(gpu_mem, Tail(plist))
         ELSE RankedOf(gpu_mem, Tail(plist))

\* the header card and the partition cards of one displayed GPU type
GroupOf(min, gpu_mem, partitions_list, filtered_partitions) ==
    LET total_nodes_sum ==
            SumSeq([k \in 1..Len(filtered_partitions) |-> filtered_partitions[k].total_nodes])
        idle_nodes_sum ==
            SumSeq([k \in 1..Len(filtered_partitions) |-> filtered_partitions[k].idle_nodes])
        allocated_nodes_sum ==
            SumSeq([k \in 1..Len(filtered_partitions) |->
                       filtered_partitions[k].allocated_nodes])
        available_nodes_sum == total_nodes_sum - allocated_nodes_sum
    IN  [gpu_mem |-> gpu_mem,
         listed |-> Len(partitions_list),
         shown |-> Len(filtered_partitions),
         filtered_partitions |-> filtered_partitions,
         total_nodes_sum |-> total_nodes_sum,
         idle_nodes_sum |-> idle_nodes_sum,
         allocated_nodes_sum |-> allocated_nodes_sum,
         available_nodes_sum |-> available_nodes_sum,
         total_available_gpu_memory |-> gpu_mem * available_nodes_sum,
         card_color |-> IF 10 * available_nodes_sum > 3 * total_nodes_sum THEN "green"
                        ELSE IF available_nodes_sum > 0 THEN "orange" ELSE "red",
         header |-> IF min > 0 /\ Len(filtered_partitions) < Len(partitions_list)
                    THEN "showing_of" ELSE "total",
         cards |-> [k \in 1..Len(filtered_partitions) |->
                       GpuCard(gpu_mem, filtered_partitions[k])]]

\* SortedDesc without reverse=True
RECURSIVE SortedDesc_Ascending(_)
SortedDesc_Ascending(S) ==
    IF S = {} THEN <<>>
    ELSE LET m == CHOOSE x \in S : \A y \in S : x <= y
         IN  <<m>> \o SortedDesc_Ascending(S \ {m})

\* sorted(keys, reverse=True)
RECURSIVE SortedDesc(_)
SortedDesc(S) ==
    IF S = {} THEN <<>>
    ELSE LET m == CHOOSE x \in S : \A y \in S : x >= y
         IN  <<m>> \o SortedDesc(S \ {m})

\* GpuLoop without the `if not filtered_partitions: continue`
RECURSIVE GpuLoop_KeepEmpty(_, _, _, _, _)
GpuLoop_KeepEmpty(min, dict, keys, groups, ranked) ==
    IF keys = <<>> THEN [groups |-> groups, ranked |-> ranked]
    ELSE LET gpu_mem == Head(keys)
             filtered_partitions == FilterPartitions(min, gpu_mem, dict[gpu_mem])
         IN  GpuLoop_KeepEmpty(min, dict, Tail(keys),
                               Append(groups, GroupOf(min, gpu_mem, dict[gpu_mem],
                                                      filtered_partitions)),
                               ranked \o RankedOf(gpu_mem, filtered_partitions))

\* the `for gpu_mem in sorted(gpu_partitions.keys(), reverse=True)` loop
RECURSIVE GpuLoop(_, _, _, _, _)
GpuLoop(min, dict, keys, groups, ranked) ==
    IF keys = <<>> THEN [groups |-> groups, ranked |-> ranked]
    ELSE LET gpu_mem == Head(keys)
             filtered_partitions == FilterPartitions(min, gpu_mem, dict[gpu_mem])
         IN  IF filtered_partitions = <<>>
             THEN GpuLoop(min, dict, Tail(keys), groups, ranked)
             ELSE GpuLoop(min, dict, Tail(keys),
                          Append(groups, GroupOf(min, gpu_mem, dict[gpu_mem],
                                                 filtered_partitions)),
                          ranked \o RankedOf(gpu_mem, filtered_partitions))

GpuSection ==
    /\ pc = "gpu_section"
    /\ IF DOMAIN gpu_partitions # {}
       THEN LET out == GpuLoop(min_gpu_memory, gpu_partitions,
                               SortedDesc(DOMAIN gpu_partitions), <<>>, filtered_results)
                has_displayed_gpu == out.groups # <<>>
                displayed_gpu_types == Len(out.groups)
            IN  /\ filtered_results' = out.ranked
                /\ summary' =
                      [summary EXCEPT
                          !.gpu_heading = IF min_gpu_memory > 0 THEN "filtered" ELSE "all",
                          !.groups = out.groups,
                          !.shown_types =
                              IF min_gpu_memory > 0 /\ has_displayed_gpu
                              THEN SOME(<<displayed_gpu_types,
                                          Cardinality(DOMAIN gpu_partitions)>>)
                              ELSE NONE,
                          !.no_matches = (~has_displayed_gpu /\ min_gpu_memory > 0)]
       ELSE UNCHANGED <<filtered_results, summary>>
    /\ pc' = "cpu_section"
    /\ UNCHANGED <<min_gpu_memory, sinfo_calls, fetched, stdout, lines, idx, partitions,
                   ret_partitions, error, gpu_partitions, cpu_partitions>>
    /\ UNCHANGED <<calls, heap, gen>>

(***************************************************************************)
(* get_available_resources: the CPU section, the ranking table, the return *)
(***************************************************************************)
CpuCard(p) ==
    [name |-> p.name,
     dominant_state |-> DominantState(p),
     timelimit |-> p.timelimit,
     idle_nodes |-> p.idle_nodes,
     allocated_nodes |-> p.allocated_nodes,
     total_nodes |-> p.total_nodes,
     allocated_cpus |-> p.allocated_cpus,
     total_cpus |-> p.total_cpus,
     available_cpus |-> p.idle_cpus]

\* InsertByTotalMemory for a sort without reverse=True
InsertByTotalMemory_Ascending(sorted, x) ==
    LET larger == {k \in 1..Len(sorted) :
                      sorted[k].total_available_gpu_memory > x.total_available_gpu_memory}
        at == IF larger = {} THEN Len(sorted) + 1
              ELSE CHOOSE k \in larger : \A j \in larger : k <= j
    IN  SubSeq(sorted, 1, at - 1) \o <<x>> \o SubSeq(sorted, at, Len(sorted))

\* position of x in a list already sorted descending by total_available_gpu_memory
InsertByTotalMemory(sorted, x) ==
    LET smaller == {k \in 1..Len(sorted) :
                       sorted[k].total_available_gpu_memory < x.total_available_gpu_memory}
        at == IF smaller = {} THEN Len(sorted) + 1
              ELSE CHOOSE k \in smaller : \A j \in smaller : k <= j
    IN  SubSeq(sorted, 1, at - 1) \o <<x>> \o SubSeq(sorted, at, Len(sorted))

RECURSIVE SortByTotalMemoryFrom(_, _, _)
SortByTotalMemoryFrom(l, k, acc) ==
    IF k > Len(l) THEN acc
    ELSE SortByTotalMemoryFrom(l, k + 1, InsertByTotalMemory(acc, l[k]))

\* filtered_results.sort(key=total_available_gpu_memory, reverse=True)
SortByTotalMemory(l) == SortByTotalMemoryFrom(l, 1, <<>>)

Finish ==
    /\ pc = "cpu_section"
    /\ LET ranking == min_gpu_memory > 0 /\ filtered_results # <<>>
           sorted == SortByTotalMemory(filtered_results)
       IN  /\ filtered_results' = IF ranking THEN sorted ELSE filtered_results
           /\ summary' =
                 [summary EXCEPT
                     !.kind = "summary",
                     !.cpu_section =
                         IF cpu_partitions # <<>>
                         THEN SOME([k \in 1..Len(cpu_partitions) |->
                                       CpuCard(cpu_partitions[k])])
                         ELSE NONE,
                     !.table = IF ranking THEN SOME(sorted) ELSE NONE]
    /\ pc' = "done"
    /\ UNCHANGED <<min_gpu_memory, sinfo_calls, fetched, stdout, lines, idx, partitions,
                   ret_partitions, error, gpu_partitions, cpu_partitions>>
    /\ UNCHANGED <<calls, heap, gen>>

Next ==
    \/ Call
    \/ FetchOk
    \/ FetchNonZero
    \/ FetchTimeout
    \/ FetchLaunchFailure
    \/ ParseLine
    \/ ParseDone
    \/ ErrorReturn
    \/ Categorize
    \/ GpuSection
    \/ Finish

Spec == Init /\ [][Next]_vars

(***************************************************************************)
(* Two invocations of get_available_resources running at the same time.    *)
(* Every name the functions assign is a local of the invocation; the only  *)
(* module-level object they touch is GPU_MEMORY, which they read.  The     *)
(* steps below are the steps of the single invocation above, taken on the  *)
(* locals of invocation i and on the dict object it created.               *)
(***************************************************************************)
\* reports and thresholds of the concurrent invocations
ConcOutputs ==
    { JoinLines(<<HeaderLine,
                  DataLine(N_a5000, R_0_1_0_1, C_0_8_0_8, <<"1">>, T_1h, S_idle, L_n1),
                  DataLine(N_l40s, R_2_1_0_3, C_4_4_0_8, <<"3">>, T_1h, S_mix, L_n1)>>),
      JoinLines(<<HeaderLine,
                  DataLine(N_a5000, R_0_0_2_2, C_4_4_0_8, <<"2">>, T_inf, S_mix, L_n2),
                  DataLine(N_cpu, R_0_1_0_1, C_0_8_0_8, <<"1">>, T_1h, S_idle, L_n1)>>),
      JoinLines(<<HeaderLine,
                  DataLine(N_a5000, R_0_x_0_1, C_0_8_0_8, <<"1">>, T_1h, S_idle, L_n1)>>) }

ConcThresholds == {0, 48}

\* `partitions = {}` with a second invocation's dict being the first one's
DictOf_Shared(i) == 1

\* `partitions = {}` makes a dict of its own for every invocation
DictOf(i) == i

\* return None, <message>
Returned(c, msg) ==
    [c EXCEPT !.ret_partitions = NONE, !.error = SOME(msg), !.pc = "returned"]

\* subprocess.run has ended with `outcome` and the text `out`
Fetched(c, outcome, out) ==
    LET c1 == [c EXCEPT !.fetched = outcome, !.stdout = out]
    IN  IF outcome = "nonzero" THEN Returned(c1, "Error running sinfo command")
        ELSE IF outcome = "timeout" THEN Returned(c1, "sinfo command timed out")
        ELSE IF Len(SplitLines(out)) < 2 THEN Returned(c1, "No sinfo output")
        ELSE [c1 EXCEPT !.lines = SplitLines(out), !.idx = FirstRowIndex, !.pc = "rows"]

\* one iteration of the row loop, or its end, on the dict `dict`
StepRows(c, dict) ==
    IF c.idx > Len(c.lines)
    THEN [call |-> [c EXCEPT !.ret_partitions = SOME(dict), !.error = NONE,
                             !.pc = "returned"],
          dict |-> dict]
    ELSE LET r == ParseRow(c.lines[c.idx])
         IN  IF r.outcome = "raise"
             THEN [call |-> Returned(c, "Error: invalid literal for int()"),
                   dict |-> dict]
             ELSE [call |-> [c EXCEPT !.idx = c.idx + 1],
                   dict |-> IF r.outcome = "row" THEN Aggregate(dict, r.row) ELSE dict]

\* the error return, or the categorising loop and the two sorts
StepReturned(c) ==
    IF c.error # NONE
    THEN [c EXCEPT !.summary = [EmptySummary EXCEPT !.kind = "error", !.error = c.error],
                   !.pc = "done"]
    ELSE LET plist == c.ret_partitions[1]
             cat == CategorizeFrom(plist, 1, <<>>, <<>>)
         IN  [c EXCEPT
                 !.partitions = [k \in 1..Len(plist) |-> Enrich(plist[k])],
                 !.gpu_partitions =
                     [m \in DOMAIN cat.gpu |-> SortByAvailability(cat.gpu[m])],
                 !.cpu_partitions = SortByAvailability(cat.cpu),
                 !.filtered_results = <<>>,
                 !.pc = "gpu_section"]

\* the GPU section
StepGpuSection(c) ==
    IF DOMAIN c.gpu_partitions # {}
    THEN LET out == GpuLoop(c.min_gpu_memory, c.gpu_partitions,
                            SortedDesc(DOMAIN c.gpu_partitions), <<>>,
                            c.filtered_results)
             has_displayed_gpu == out.groups # <<>>
         IN  [c EXCEPT
                 !.filtered_results = out.ranked,
                 !.summary =
                     [c.summary EXCEPT
                         !.gpu_heading = IF c.min_gpu_memory > 0 THEN "filtered" ELSE "all",
                         !.groups = out.groups,
                         !.shown_types =
                             IF c.min_gpu_memory > 0 /\ has_displayed_gpu
                             THEN SOME(<<Len(out.groups),
                                         Cardinality(DOMAIN c.gpu_partitions)>>)
                             ELSE NONE,
                         !.no_matches = (~has_displayed_gpu /\ c.min_gpu_memory > 0)],
                 !.pc = "cpu_section"]
    ELSE [c EXCEPT !.pc = "cpu_section"]

\* the CPU section, the ranking table, the return
StepFinish(c) ==
    LET ranking == c.min_gpu_memory > 0 /\ c.filtered_results # <<>>
        sorted == SortByTotalMemory(c.filtered_results)
    IN  [c EXCEPT
            !.filtered_results = IF ranking THEN sorted ELSE c.filtered_results,
            !.summary =
                [c.summary EXCEPT
                    !.kind = "summary",
                    !.cpu_section =
                        IF c.cpu_partitions # <<>>
                        THEN SOME([k \in 1..Len(c.cpu_partitions) |->
                                      CpuCard(c.cpu_partitions[k])])
                        ELSE NONE,
                    !.table = IF ranking THEN SOME(sorted) ELSE NONE],
            !.pc = "done"]

\* get_available_resources(min_gpu_memory) is called by invocation i
CCall(i) ==
    /\ calls[i].pc = "idle"
    /\ \E m \in ConcThresholds :
          calls' = [calls EXCEPT ![i] =
                       [@ EXCEPT !.min_gpu_memory = m, !.pc = "fetch",
                                 !.peer_pc = calls[CHOOSE j \in Invocations : j # i].pc]]
    /\ UNCHANGED <<heap, single, gen>>

\* subprocess.run of invocation i returns with exit status 0; `partitions = {}`
CFetchOk(i) ==
    /\ calls[i].pc = "fetch"
    /\ \E out \in ConcOutputs :
          /\ calls' = [calls EXCEPT ![i] = Fetched(@, "ok", out)]
          /\ heap' = IF Len(SplitLines(out)) < 2 THEN heap
                     ELSE [heap EXCEPT ![DictOf(i)] = <<>>]
    /\ UNCHANGED <<single, gen>>

\* subprocess.run of invocation i fails or is killed at the deadline
CFetchFailed(i) ==
    /\ calls[i].pc = "fetch"
    /\ \E outcome \in {"nonzero", "timeout"} :
          calls' = [calls EXCEPT ![i] = Fetched(@, outcome, <<>>)]
    /\ UNCHANGED <<heap, single, gen>>

\* one iteration of the row loop of invocation i, or its return
CRows(i) ==
    /\ calls[i].pc = "rows"
    /\ LET next == StepRows(calls[i], heap[DictOf(i)])
       IN  /\ calls' = [calls EXCEPT ![i] = next.call]
           /\ heap' = [heap EXCEPT ![DictOf(i)] = next.dict]
    /\ UNCHANGED <<single, gen>>

CReturned(i) ==
    /\ calls[i].pc = "returned"
    /\ calls' = [calls EXCEPT ![i] = StepReturned(@)]
    /\ UNCHANGED <<heap, single, gen>>

CGpuSection(i) ==
    /\ calls[i].pc = "gpu_section"
    /\ calls' = [calls EXCEPT ![i] = StepGpuSection(@)]
    /\ UNCHANGED <<heap, single, gen>>

CFinish(i) ==
    /\ calls[i].pc = "cpu_section"
    /\ calls' = [calls EXCEPT ![i] = StepFinish(@)]
    /\ UNCHANGED <<heap, single, gen>>

NextConc ==
    \E i \in Invocations :
        \/ CCall(i)
        \/ CFetchOk(i)
        \/ CFetchFailed(i)
        \/ CRows(i)
        \/ CReturned(i)
        \/ CGpuSection(i)
        \/ CFinish(i)

SpecConc == Init /\ [][NextConc]_vars

(***************************************************************************)
(* generate_slurm_script: one invocation, step by step.                    *)
(***************************************************************************)
\* generate_slurm_script(...) is called
GenCall ==
    /\ gen.pc = "idle"
    /\ \E a \in GenArgs : gen' = [gen EXCEPT !.pc = "called", !.args = a]
    /\ UNCHANGED <<single, calls, heap>>

\* lines 508-565: every check runs and appends to errors and warnings
GenValidate ==
    /\ gen.pc = "called"
    /\ gen' = [gen EXCEPT !.pc = "validated",
                          !.errors = Appended(Checks(gen.args), "errors"),
                          !.warnings = Appended(Checks(gen.args), "warnings")]
    /\ UNCHANGED <<single, calls, heap>>

\* lines 568-572: with an error recorded, the error report is returned
GenReturnErrors ==
    /\ gen.pc = "validated"
    /\ gen.errors # <<>>
    /\ gen' = [gen EXCEPT !.pc = "done",
                          !.result = [kind |-> "errors",
                                      lines |-> ErrorMessage(gen.errors, gen.warnings)]]
    /\ UNCHANGED <<single, calls, heap>>

\* lines 574-625: the script is started; the resource numbers are converted again,
\* and a conversion that raises returns the one-line numeric error
GenResources ==
    /\ gen.pc = "validated"
    /\ gen.errors = <<>>
    /\ LET started == ScriptHead(gen.warnings) \o RequiredDirectives(gen.args)
       IN  IF ResourcesRaise(gen.args)
           THEN gen' = [gen EXCEPT
                            !.pc = "done",
                            !.script = started,
                            !.result = [kind |-> "numeric_error",
                                        lines |-> <<Heading("ERROR: Invalid numeric values in resource allocation")>>]]
           ELSE gen' = [gen EXCEPT !.pc = "resources",
                                   !.script = started \o ResourceDirectives(gen.args)]
    /\ UNCHANGED <<single, calls, heap>>

\* lines 627-699: the remaining directives and the body; the script is returned
GenFinish ==
    /\ gen.pc = "resources"
    /\ LET script == gen.script \o OptionalDirectives(gen.args) \o ScriptTail(gen.args)
       IN  gen' = [gen EXCEPT !.pc = "done", !.script = script,
                              !.result = [kind |-> "script", lines |-> script]]
    /\ UNCHANGED <<single, calls, heap>>

NextGen ==
    \/ GenCall
    \/ GenValidate
    \/ GenReturnErrors
    \/ GenResources
    \/ GenFinish

SpecGen == Init /\ [][NextGen]_vars

(***************************************************************************)
(* Vocabulary of the properties: the report as the specification reads it, *)
(* stated on the text of the lines and not through ParseRow.               *)
(***************************************************************************)
\* one data row as the specification reads it: whether it carries seven columns
\* and two four-part ratio fields (accepted), whether in addition every ratio part
\* and the node count is an integer (wellformed), its key, and its counters
RowView(line) ==
    LET cols == SplitWs(line)
        nodes == IF Len(cols) >= 2 THEN SplitOn(cols[2], "/") ELSE <<>>
        cpus == IF Len(cols) >= 3 THEN SplitOn(cols[3], "/") ELSE <<>>
        accepted == Len(cols) >= 7 /\ Len(nodes) = 4 /\ Len(cpus) = 4
        wellformed == /\ accepted
                      /\ \A k \in 1..4 : IntParses(nodes[k]) /\ IntParses(cpus[k])
                      /\ IntParses(cols[4])
    IN  [accepted |-> accepted,
         wellformed |-> wellformed,
         key |-> IF cols = <<>> THEN <<>> ELSE StrRemoveChar(cols[1], "*"),
         name |-> IF cols = <<>> THEN <<>> ELSE cols[1],
         timelimit |-> IF Len(cols) >= 5 THEN cols[5] ELSE <<>>,
         nodes |-> IF wellformed THEN [k \in 1..4 |-> IntOf(nodes[k])] ELSE <<>>,
         cpus |-> IF wellformed THEN [k \in 1..4 |-> IntOf(cpus[k])] ELSE <<>>]

\* the views of the data rows, in input order; position 1 is the header and has none
RECURSIVE ViewsFrom(_)
ViewsFrom(i) ==
    IF i > Len(lines) THEN <<>> ELSE <<RowView(lines[i])>> \o ViewsFrom(i + 1)

DataViews == ViewsFrom(2)

\* allocated + idle + other = total, for the node and for the CPU counters
ViewConsistent(v) ==
    /\ v.nodes[1] + v.nodes[2] + v.nodes[3] = v.nodes[4]
    /\ v.cpus[1] + v.cpus[2] + v.cpus[3] = v.cpus[4]

\* sum of node counter k (or CPU counter k) over the views at the positions P
RECURSIVE SumNodes(_, _, _)
SumNodes(views, P, k) ==
    IF P = {} THEN 0
    ELSE LET i == CHOOSE i \in P : TRUE
         IN  views[i].nodes[k] + SumNodes(views, P \ {i}, k)

RECURSIVE SumCpus(_, _, _)
SumCpus(views, P, k) ==
    IF P = {} THEN 0
    ELSE LET i == CHOOSE i \in P : TRUE
         IN  views[i].cpus[k] + SumCpus(views, P \ {i}, k)

NamesOf(plist) == {plist[k].name : k \in 1..Len(plist)}

ParseFinished == pc \in {"returned", "gpu_section", "cpu_section", "done"} /\ fetched = "ok"
                     /\ Len(lines) >= 2

Categorized == pc \in {"gpu_section", "cpu_section"} \/ (pc = "done" /\ error = NONE)

\* the partitions displayed in the GPU section
ShownNames ==
    UNION {NamesOf(summary.groups[g].filtered_partitions) : g \in 1..Len(summary.groups)}

FetchFailed == fetched \in {"nonzero", "timeout", "launch"}

(***************************************************************************)
(* C1: with minCapacity > 0 an accelerator-bearing partition is shown in   *)
(* its capacity group if and only if perUnitMemory * availableUnits, with  *)
(* availableUnits = max(0, total - allocated - other), is >= minCapacity.  *)
(***************************************************************************)
C1_ShownIffCapacityMeetsThreshold ==
    (pc = "done" /\ summary.kind = "summary" /\ min_gpu_memory > 0) =>
        \A k \in 1..Len(partitions) :
            Truthy(partitions[k].gpu_memory) =>
                (partitions[k].name \in ShownNames
                    <=> partitions[k].gpu_memory[1] * partitions[k].available_nodes
                            >= min_gpu_memory)

(***************************************************************************)
(* C2: the available-unit count behind the threshold filter, behind        *)
(* totalAvailableCapacity and in the ranked record is                      *)
(* max(0, total - allocated - other) for every aggregate.                  *)
(***************************************************************************)
C2_OtherNodesNeverAvailable ==
    (pc = "done" /\ min_gpu_memory >= 0) =>
        /\ \A g \in 1..Len(summary.groups) :
              \A k \in 1..Len(summary.groups[g].cards) :
                 LET p == summary.groups[g].filtered_partitions[k]
                     card == summary.groups[g].cards[k]
                 IN  /\ card.partition_available_nodes = available_nodes_of(p)
                     /\ card.partition_available_gpu_memory
                            = summary.groups[g].gpu_mem * available_nodes_of(p)
                     /\ (min_gpu_memory > 0 =>
                            summary.groups[g].gpu_mem * available_nodes_of(p)
                                >= min_gpu_memory)
        /\ \A r \in 1..Len(filtered_results) :
              \A k \in 1..Len(partitions) :
                 partitions[k].name = filtered_results[r].partition =>
                    /\ filtered_results[r].available_nodes
                           = available_nodes_of(partitions[k])
                    /\ filtered_results[r].total_available_gpu_memory
                           = filtered_results[r].gpu_memory * available_nodes_of(partitions[k])

(***************************************************************************)
(* C3: after aggregation every counter of every aggregate is the sum of    *)
(* that counter over the accepted data rows of that name; each accepted    *)
(* row feeds exactly one aggregate, once; the header line feeds none.      *)
(***************************************************************************)
C3_AggregateIsSumOfAcceptedRows ==
    (ParseFinished /\ ret_partitions # NONE) =>
        LET aggs == ret_partitions[1]
            views == DataViews
            accepted == {i \in 1..Len(views) : views[i].accepted}
        IN  /\ \A i \in accepted : Cardinality({k \in 1..Len(aggs) :
                                       aggs[k].name = views[i].key}) = 1
            /\ \A k \in 1..Len(aggs) :
                  LET mine == {i \in accepted : views[i].key = aggs[k].name}
                  IN  /\ mine # {}
                      /\ aggs[k].allocated_nodes = SumNodes(views, mine, 1)
                      /\ aggs[k].idle_nodes = SumNodes(views, mine, 2)
                      /\ aggs[k].other_nodes = SumNodes(views, mine, 3)
                      /\ aggs[k].total_nodes = SumNodes(views, mine, 4)
                      /\ aggs[k].allocated_cpus = SumCpus(views, mine, 1)
                      /\ aggs[k].idle_cpus = SumCpus(views, mine, 2)
                      /\ aggs[k].other_cpus = SumCpus(views, mine, 3)
                      /\ aggs[k].total_cpus = SumCpus(views, mine, 4)
                      /\ Len(aggs[k].states) = Cardinality(mine)

\* the rows 2/1/0/3 and 1/0/0/1 of one partition, after a first line that is itself
\* a data row of that partition: total 4, allocated 3, idle 1, other 0, one available
C3_Witness ==
    /\ pc = "done"
    /\ error = NONE
    /\ Len(lines) = 3
    /\ lines[1] # HeaderLine
    /\ Len(partitions) = 1
    /\ partitions[1].name = N_l40s
    /\ partitions[1].total_nodes = 4
    /\ partitions[1].allocated_nodes = 3
    /\ partitions[1].idle_nodes = 1
    /\ partitions[1].other_nodes = 0
    /\ partitions[1].available_nodes = 1

(***************************************************************************)
(* C4: a report with at least one well-formed row never fails as a whole:  *)
(* malformed rows (missing column, ratio not of four parts, non-integer    *)
(* part) are skipped and the aggregates of the well-formed rows returned.  *)
(***************************************************************************)
C4_MalformedRowNeverFailsBatch ==
    ParseFinished =>
        LET views == DataViews
            good == {i \in 1..Len(views) : views[i].wellformed}
        IN  good # {} =>
               /\ error = NONE
               /\ ret_partitions # NONE
               /\ NamesOf(ret_partitions[1]) = {views[i].key : i \in good}

(***************************************************************************)
(* C5: a report with data lines of which none parses into a usable row     *)
(* ends in an error outcome, not in an empty successful result; rows that  *)
(* are merely skipped never produce an error.                              *)
(***************************************************************************)
C5_NoUsableRowsIsMalformedReport ==
    (pc = "done" /\ fetched = "ok" /\ Len(lines) >= 2) =>
        LET views == DataViews
            good == {i \in 1..Len(views) : views[i].wellformed}
            skipped == {i \in 1..Len(views) : ~views[i].accepted}
        IN  /\ good = {} => summary.kind = "error"
            /\ (good # {} /\ good \cup skipped = 1..Len(views)) => summary.kind = "summary"

(***************************************************************************)
(* C6: a data row whose node or CPU counters violate                       *)
(* allocated + idle + other = total is rejected: no aggregate carries its  *)
(* name on its account and no sum includes its counters.                   *)
(***************************************************************************)
C6_InconsistentRowRejected ==
    (ParseFinished /\ ret_partitions # NONE) =>
        LET aggs == ret_partitions[1]
            views == DataViews
            sound == {i \in 1..Len(views) : views[i].accepted /\ ViewConsistent(views[i])}
        IN  \A k \in 1..Len(aggs) :
               LET mine == {i \in sound : views[i].key = aggs[k].name}
               IN  /\ mine # {}
                   /\ aggs[k].total_nodes = SumNodes(views, mine, 4)
                   /\ aggs[k].allocated_nodes = SumNodes(views, mine, 1)
                   /\ aggs[k].total_cpus = SumCpus(views, mine, 4)

(***************************************************************************)
(* C7: infer_gpu_memory returns, for every partition name, the memory of   *)
(* the first catalog entry in declared order whose fragment occurs in the  *)
(* lower-cased name, and no accelerator when none occurs; l40s_nova gives  *)
(* 48.                                                                     *)
(***************************************************************************)
C7_FirstCatalogMatchWins ==
    Categorized =>
        \A k \in 1..Len(partitions) :
            LET folded == StrLower(partitions[k].name)
                hits == {e \in 1..Len(GPU_MEMORY) :
                            \E at \in 1..Len(folded) :
                               /\ at + Len(GPU_MEMORY[e].gpu_type) - 1 <= Len(folded)
                               /\ \A j \in 1..Len(GPU_MEMORY[e].gpu_type) :
                                     folded[at + j - 1] = GPU_MEMORY[e].gpu_type[j]}
            IN  /\ hits = {} => partitions[k].gpu_memory = NONE
                /\ hits # {} =>
                      \E e \in hits :
                         /\ \A f \in hits : e <= f
                         /\ partitions[k].gpu_memory = SOME(GPU_MEMORY[e].memory)
                /\ partitions[k].name = N_l40s => partitions[k].gpu_memory = SOME(48)

\* a name holding two fragments of different memory (a40 before a100 in the name,
\* a100 before a40 in the catalog), an upper-case name and a name without fragment
C7_Witness ==
    /\ pc = "done"
    /\ error = NONE
    /\ Len(partitions) = 2
    /\ \E k \in 1..2 : partitions[k].name = N_mixed /\ partitions[k].gpu_memory = SOME(40)
    /\ \E k \in 1..2 : partitions[k].name = N_h200 /\ partitions[k].gpu_memory = SOME(141)

(***************************************************************************)
(* C8: a negative threshold is rejected before any filtering or ranking:   *)
(* no filtered or ranked result is ever produced for minCapacity < 0.      *)
(***************************************************************************)
C8_NegativeThresholdRejected ==
    min_gpu_memory < 0 =>
        /\ pc \notin {"gpu_section", "cpu_section"}
        /\ summary.kind # "summary"

(***************************************************************************)
(* C9: when fetch and parse succeed (some row was aggregated),             *)
(* minCapacity > 0 and no accelerator-bearing partition is shown (also     *)
(* when the report has none at all), the result carries the "no matches"   *)
(* state and is not an error; a failed fetch never carries it.             *)
(***************************************************************************)
C9_NoMatchesIsExplicit ==
    pc = "done" =>
        /\ (error = NONE /\ partitions # <<>> /\ min_gpu_memory > 0
                /\ summary.groups = <<>>) =>
              (summary.no_matches /\ summary.kind = "summary")
        /\ FetchFailed => ~summary.no_matches

(***************************************************************************)
(* C10: a fetch that times out, exits non-zero or cannot be launched is    *)
(* terminal: no partition data is returned, the command was invoked        *)
(* exactly once, and the pipeline returns one error message without        *)
(* entering aggregation or ranking.                                        *)
(***************************************************************************)
C10_FetchFailureIsTerminal ==
    /\ sinfo_calls <= 1
    /\ pc \notin {"idle", "fetch"} => sinfo_calls = 1
    /\ FetchFailed =>
          /\ pc \in {"returned", "done"}
          /\ ret_partitions = NONE
          /\ error # NONE
          /\ lines = <<>> /\ partitions = <<>>
          /\ gpu_partitions = <<>> /\ cpu_partitions = <<>> /\ filtered_results = <<>>
          /\ pc = "done" => summary = [EmptySummary EXCEPT !.kind = "error", !.error = error]

\* the deadline expired although the command had already printed rows
C10_Witness ==
    /\ pc = "done"
    /\ fetched = "timeout"
    /\ Len(SplitLines(stdout)) >= 2
    /\ summary.kind = "error"
    /\ sinfo_calls = 1

(***************************************************************************)
(* C11: when several accepted rows of one partition carry different time   *)
(* limits, the aggregate's time limit is that of the last such row in      *)
(* input order.                                                            *)
(***************************************************************************)
\* positions of the accepted rows aggregated under the key of partition p
RowsOf(views, p) ==
    {i \in 1..Len(views) : views[i].accepted /\ views[i].key = p.name}

C11_LastTimeLimitWins ==
    (ParseFinished /\ ret_partitions # NONE) =>
        LET views == DataViews
            parts == ret_partitions[1]
        IN  \A k \in 1..Len(parts) :
                LET P == RowsOf(views, parts[k])
                    last == CHOOSE i \in P : \A j \in P : j <= i
                IN  P # {} => parts[k].timelimit = views[last].timelimit

\* C11 as the code has it: the time limit of the first accepted row of the
\* partition is kept, whatever the later rows of that partition carry
C11_FirstTimeLimitWins ==
    (pc = "returned" /\ ret_partitions # NONE) =>
        LET views == DataViews
            parts == ret_partitions[1]
        IN  \A k \in 1..Len(parts) :
                LET P == RowsOf(views, parts[k])
                    first == CHOOSE i \in P : \A j \in P : i <= j
                IN  P # {} /\ parts[k].timelimit = views[first].timelimit

\* two accepted rows of one partition with different time limits were aggregated
C11_Witness ==
    /\ pc = "done" /\ error = NONE /\ fetched = "ok"
    /\ Len(partitions) = 1
    /\ LET views == DataViews
       IN  /\ Len(views) = 2
           /\ views[1].wellformed /\ views[2].wellformed
           /\ views[1].key = views[2].key
           /\ views[1].timelimit # views[2].timelimit

(***************************************************************************)
(* C12: the aggregation key of a row is its partition-name token with only *)
(* a trailing default-partition marker `*` removed: `p*` and `p` feed the  *)
(* same aggregate and every other character of the name is kept unchanged. *)
(***************************************************************************)
\* the name token without one trailing `*`
WithoutTrailingMarker(name) ==
    IF name # <<>> /\ name[Len(name)] = "*" THEN SubSeq(name, 1, Len(name) - 1)
    ELSE name

C12_OnlyTrailingMarkerRemoved ==
    (ParseFinished /\ ret_partitions # NONE) =>
        LET views == DataViews
        IN  NamesOf(ret_partitions[1]) =
                {WithoutTrailingMarker(views[i].name) :
                    i \in {j \in 1..Len(views) : views[j].accepted}}

(***************************************************************************)
(* C13: filtering is monotonic in the threshold: for one report and        *)
(* thresholds 0 <= m1 <= m2, the number of partitions shown with m2 is at  *)
(* most the number shown with m1.                                          *)
(***************************************************************************)
\* thresholds the report of the current state is filtered with
CompareThresholds == {0, 1, 24, 25, 48, 49, 72, 141}

RECURSIVE SumShown(_, _)
SumShown(groups, g) ==
    IF g > Len(groups) THEN 0
    ELSE Len(groups[g].filtered_partitions) + SumShown(groups, g + 1)

\* number of partitions the GPU loop and the CPU section show of the
\* categorised report of this state when the threshold is m
NumShown(m) ==
    SumShown(GpuLoop(m, gpu_partitions, SortedDesc(DOMAIN gpu_partitions),
                     <<>>, <<>>).groups, 1)
    + Len(cpu_partitions)

\* number of partitions shown in the summary of this state
ActualShown ==
    SumShown(summary.groups, 1)
    + (IF summary.cpu_section = NONE THEN 0 ELSE Len(summary.cpu_section[1]))

C13_FilteringMonotonic ==
    (pc = "done" /\ error = NONE /\ min_gpu_memory >= 0) =>
        /\ ActualShown = NumShown(min_gpu_memory)
        /\ \A m1, m2 \in CompareThresholds :
               m1 <= m2 => NumShown(m2) <= NumShown(m1)

\* a report of which the threshold of this run shows fewer partitions than a
\* smaller threshold does
C13_Witness ==
    /\ pc = "done" /\ error = NONE
    /\ min_gpu_memory = 48
    /\ ActualShown = 1
    /\ NumShown(24) = 2
    /\ NumShown(49) = 0

(***************************************************************************)
(* C14: aggregation does not depend on the order of the rows: every        *)
(* permutation of the same well-formed data rows gives the same node and   *)
(* CPU sums for every partition.                                           *)
(***************************************************************************)
\* ParseRow of the data lines from position i on, in input order
RECURSIVE ParsedFrom(_)
ParsedFrom(i) ==
    IF i > Len(lines) THEN <<>> ELSE <<ParseRow(lines[i])>> \o ParsedFrom(i + 1)

\* the row loop run over the parsed rows taken in the order `order`
RECURSIVE AggregateInOrder(_, _, _, _)
AggregateInOrder(rows, order, k, dict) ==
    IF k > Len(order) THEN dict
    ELSE LET r == rows[order[k]]
         IN  AggregateInOrder(rows, order, k + 1,
                              IF r.outcome = "row" THEN Aggregate(dict, r.row) ELSE dict)

\* name and the eight sums of an aggregate
SumsOf(p) ==
    [name |-> p.name,
     nodes |-> <<p.allocated_nodes, p.idle_nodes, p.other_nodes, p.total_nodes>>,
     cpus |-> <<p.allocated_cpus, p.idle_cpus, p.other_cpus, p.total_cpus>>]

SumsOfAll(plist) == {SumsOf(plist[k]) : k \in 1..Len(plist)}

C14_AggregationOrderIndependent ==
    (pc = "returned" /\ ret_partitions # NONE) =>
        LET rows == ParsedFrom(2)
        IN  \A order \in Permutations(1..Len(rows)) :
                SumsOfAll(AggregateInOrder(rows, order, 1, <<>>))
                    = SumsOfAll(ret_partitions[1])

\* two different well-formed rows of one partition were aggregated, so that a
\* permutation changes the order in which the rows reach their aggregate
C14_Witness ==
    /\ pc = "done" /\ error = NONE /\ fetched = "ok"
    /\ LET views == DataViews
       IN  /\ Len(views) = MaxRows
           /\ \A i \in 1..Len(views) : views[i].wellformed
           /\ \E i, j \in 1..Len(views) :
                  /\ i < j
                  /\ views[i].key = views[j].key
                  /\ views[i].nodes # views[j].nodes
                  /\ views[i].cpus # views[j].cpus

(***************************************************************************)
(* C15: for every aggregate built from well-formed rows,                   *)
(* 0 <= availableUnits <= total nodes, and therefore the sum of            *)
(* availableUnits over all partitions is at most the sum of total nodes.   *)
(***************************************************************************)
RECURSIVE SumAvailable(_, _)
SumAvailable(plist, k) ==
    IF k > Len(plist) THEN 0 ELSE plist[k].available_nodes + SumAvailable(plist, k + 1)

RECURSIVE SumTotal(_, _)
SumTotal(plist, k) ==
    IF k > Len(plist) THEN 0 ELSE plist[k].total_nodes + SumTotal(plist, k + 1)

C15_AvailableWithinTotal ==
    Categorized =>
        /\ \A k \in 1..Len(partitions) :
               /\ 0 <= partitions[k].available_nodes
               /\ partitions[k].available_nodes <= partitions[k].total_nodes
        /\ SumAvailable(partitions, 1) <= SumTotal(partitions, 1)

\* one partition with all its nodes available and one whose nodes are neither
\* idle nor allocated, so that none of them is available
C15_Witness ==
    /\ pc = "done" /\ error = NONE
    /\ Len(partitions) = 2
    /\ \E k \in 1..2 : /\ partitions[k].total_nodes > 0
                       /\ partitions[k].available_nodes = partitions[k].total_nodes
    /\ \E k \in 1..2 : /\ partitions[k].other_nodes > 0
                       /\ partitions[k].available_nodes = 0

(***************************************************************************)
(* C17: with a non-zero threshold the best-overall ranking contains every  *)
(* qualifying accelerator-bearing partition exactly once, no compute-only  *)
(* partition and no partition dropped by the threshold; with threshold 0   *)
(* no ranking is produced.  A partition qualifies when perUnitMemory *     *)
(* availableUnits >= minCapacity, availableUnits = max(0, total -          *)
(* allocated - other).                                                     *)
(***************************************************************************)
\* the entries of the ranking table, none when no table is produced
RankingEntries == IF summary.table = NONE THEN <<>> ELSE summary.table[1]

\* names of the accelerator-bearing partitions whose capacity, counted with
\* availableUnits, meets the threshold of this run
QualifyingNames ==
    {partitions[k].name : k \in
        {j \in 1..Len(partitions) :
            /\ Truthy(partitions[j].gpu_memory)
            /\ partitions[j].gpu_memory[1] * partitions[j].available_nodes
                   >= min_gpu_memory}}

C17_RankingIsTheQualifyingPartitions ==
    (pc = "done" /\ error = NONE /\ min_gpu_memory >= 0) =>
        LET t == RankingEntries
        IN  /\ min_gpu_memory = 0 => summary.table = NONE
            /\ min_gpu_memory > 0 =>
                   /\ {t[k].partition : k \in 1..Len(t)} = QualifyingNames
                   /\ \A i, j \in 1..Len(t) : t[i].partition = t[j].partition => i = j
                   /\ \A k \in 1..Len(t) : t[k].partition \notin NamesOf(cpu_partitions)

(***************************************************************************)
(* C18: the best-overall ranking is sorted strictly descending by          *)
(* totalAvailableCapacity: of every two consecutive entries the earlier    *)
(* one has the strictly larger capacity.                                   *)
(***************************************************************************)
C18_RankingStrictlyDescending ==
    (pc = "done" /\ error = NONE) =>
        LET t == RankingEntries
        IN  \A k \in 1..(Len(t) - 1) :
                t[k].total_available_gpu_memory > t[k + 1].total_available_gpu_memory

\* C18 as the code has it: the earlier entry of two consecutive ones has the
\* larger or the same capacity
C18_RankingNonIncreasing ==
    (pc = "done" /\ error = NONE) =>
        LET t == RankingEntries
        IN  \A k \in 1..(Len(t) - 1) :
                t[k].total_available_gpu_memory >= t[k + 1].total_available_gpu_memory

\* a ranking of two partitions with the same total available capacity, in a
\* report without nodes in the `other` state
C18_Witness ==
    /\ pc = "done" /\ error = NONE
    /\ \A k \in 1..Len(partitions) : partitions[k].other_nodes = 0
    /\ Len(RankingEntries) = 2
    /\ RankingEntries[1].partition # RankingEntries[2].partition
    /\ RankingEntries[1].total_available_gpu_memory
           = RankingEntries[2].total_available_gpu_memory

(***************************************************************************)
(* C19: within every shown group (each capacity group and the compute-only *)
(* bucket) the partitions are ordered descending by the pair               *)
(* (availableUnits, idle nodes), and the order is stable: partitions equal *)
(* on both keys keep their aggregation (first-seen) order.                 *)
(***************************************************************************)
\* position of the partition called name in the aggregation order
AggregationIndex(name) == CHOOSE k \in 1..Len(partitions) : partitions[k].name = name

\* the names listed, in display order, are descending by (availableUnits, idle
\* nodes) and keep the aggregation order where both keys are equal
OrderedStable(names) ==
    \A i, j \in 1..Len(names) :
        i < j =>
            LET a == partitions[AggregationIndex(names[i])]
                b == partitions[AggregationIndex(names[j])]
            IN  \/ a.available_nodes > b.available_nodes
                \/ /\ a.available_nodes = b.available_nodes
                   /\ a.idle_nodes > b.idle_nodes
                \/ /\ a.available_nodes = b.available_nodes
                   /\ a.idle_nodes = b.idle_nodes
                   /\ AggregationIndex(names[i]) < AggregationIndex(names[j])

\* names of the compute-only cards in display order
CpuCardNames ==
    IF summary.cpu_section = NONE THEN <<>>
    ELSE [k \in 1..Len(summary.cpu_section[1]) |-> summary.cpu_section[1][k].name]

C19_GroupsOrderedStable ==
    (pc = "done" /\ error = NONE) =>
        /\ \A g \in 1..Len(summary.groups) :
               OrderedStable([k \in 1..Len(summary.groups[g].cards) |->
                                 summary.groups[g].cards[k].name])
        /\ OrderedStable(CpuCardNames)

\* two compute-only partitions equal on both keys are shown
C19_Witness ==
    /\ pc = "done" /\ error = NONE
    /\ Len(CpuCardNames) = 2
    /\ LET a == partitions[AggregationIndex(CpuCardNames[1])]
           b == partitions[AggregationIndex(CpuCardNames[2])]
       IN  /\ a.available_nodes = b.available_nodes
           /\ a.idle_nodes = b.idle_nodes

(***************************************************************************)
(* C20: the shown capacity groups appear in strictly descending order of   *)
(* per-unit capacity, each capacity value forms exactly one group, and the *)
(* compute-only bucket appears after all accelerator groups.               *)
(***************************************************************************)
C20_GroupsDescendingThenCpu ==
    /\ (pc = "done" /\ error = NONE) =>
           LET groups == summary.groups
           IN  /\ \A g \in 1..(Len(groups) - 1) : groups[g].gpu_mem > groups[g + 1].gpu_mem
               /\ \A g \in 1..Len(groups) :
                      \A k \in 1..Len(groups[g].filtered_partitions) :
                          groups[g].filtered_partitions[k].gpu_memory
                              = SOME(groups[g].gpu_mem)
    \* the compute-only bucket is written by the last step, after the GPU loop
    /\ summary.cpu_section # NONE => pc = "done"
    /\ pc = "cpu_section" => summary.cpu_section = NONE

\* two capacity groups are shown whose partitions were aggregated in ascending
\* order of capacity
C20_Witness ==
    /\ pc = "done" /\ error = NONE
    /\ Len(summary.groups) = 2
    /\ Len(partitions) = 2
    /\ partitions[1].gpu_memory[1] < partitions[2].gpu_memory[1]

(***************************************************************************)
(* C16: concurrent invocations share no mutable state: under every         *)
(* interleaving of two invocations each invocation's result equals the     *)
(* result it produces when run alone on the same threshold and the same    *)
(* command outcome; the catalog is never written.                          *)
(***************************************************************************)
\* the invocation run to its end with no other invocation, on a dict of its own
RECURSIVE RunAlone(_, _)
RunAlone(c, dict) ==
    IF c.pc = "done" THEN c
    ELSE IF c.pc = "rows"
         THEN LET next == StepRows(c, dict) IN RunAlone(next.call, next.dict)
    ELSE IF c.pc = "returned" THEN RunAlone(StepReturned(c), dict)
    ELSE IF c.pc = "gpu_section" THEN RunAlone(StepGpuSection(c), dict)
    ELSE RunAlone(StepFinish(c), dict)

\* the result of invocation c's inputs when nothing else runs
ResultAlone(c) ==
    RunAlone(Fetched([IdleCall EXCEPT !.min_gpu_memory = c.min_gpu_memory,
                                      !.pc = "fetch"],
                     c.fetched, c.stdout), <<>>).summary

C16_ConcurrentEqualsAlone ==
    \A i \in Invocations :
        calls[i].pc = "done" => calls[i].summary = ResultAlone(calls[i])

\* both invocations finished a report with partitions, the second was called
\* while the first was in its row loop, and their inputs differ
C16_Witness ==
    /\ calls[1].pc = "done" /\ calls[2].pc = "done"
    /\ calls[2].peer_pc = "rows"
    /\ calls[1].stdout # calls[2].stdout
    /\ calls[1].min_gpu_memory # calls[2].min_gpu_memory
    /\ calls[1].summary.kind = "summary" /\ calls[2].summary.kind = "summary"
    /\ calls[1].summary.groups # <<>> /\ calls[2].summary.groups # <<>>
    /\ calls[1].summary # calls[2].summary

(***************************************************************************)
(* C21: a capacity group with no partition left after filtering is omitted *)
(* entirely: every group in the output holds at least one partition, and   *)
(* the number of displayed groups equals the number of capacity values     *)
(* with at least one partition passing the filter.                         *)
(***************************************************************************)
\* capacity values of the report with a partition that passes the filter
PassingCapacities ==
    {m \in DOMAIN gpu_partitions :
        \E k \in 1..Len(gpu_partitions[m]) :
            PassesFilter(min_gpu_memory, m, gpu_partitions[m][k])}

C22_GroupSummaryIsSumOfShown ==
    (pc = "done" /\ error = NONE /\ min_gpu_memory = 0) =>
        \A g \in 1..Len(summary.groups) :
            LET grp == summary.groups[g]
            IN  /\ grp.available_nodes_sum = SumAvailable(grp.filtered_partitions, 1)
                /\ grp.shown = Len(grp.filtered_partitions)
                /\ grp.listed = Len(gpu_partitions[grp.gpu_mem])

(***************************************************************************)
(* C23: the available-CPU figure reported for a partition is the same      *)
(* function of its CPU counters whether the partition is accelerator-      *)
(* bearing or compute-only: the figure on a GPU card is what the           *)
(* compute-only card would report for the same counters.                   *)
(***************************************************************************)
C23_AvailableCpusSameFormula ==
    (pc = "done" /\ error = NONE /\ min_gpu_memory >= 0) =>
        \A g \in 1..Len(summary.groups) :
            \A k \in 1..Len(summary.groups[g].cards) :
                summary.groups[g].cards[k].available_cpus
                    = CpuCard(summary.groups[g].filtered_partitions[k]).available_cpus

(***************************************************************************)
(* C24: every aggregate is placed in exactly one bucket (one capacity      *)
(* group, or the compute-only bucket when no catalog fragment matches its  *)
(* name), and compute-only partitions are never removed by the threshold:  *)
(* for every threshold every compute-only partition of the report is shown.*)
(***************************************************************************)
\* number of places the partition called name takes in the buckets
BucketPlaces(name) ==
    Cardinality({<<m, k>> \in UNION {{m} \X (1..Len(gpu_partitions[m])) :
                                        m \in DOMAIN gpu_partitions} :
                    gpu_partitions[m][k].name = name})
    + Cardinality({k \in 1..Len(cpu_partitions) : cpu_partitions[k].name = name})

C24_OneBucketAndCpuAlwaysShown ==
    /\ Categorized =>
           \A k \in 1..Len(partitions) :
               LET p == partitions[k]
               IN  /\ BucketPlaces(p.name) = 1
                   /\ (p.name \in NamesOf(cpu_partitions))
                          <=> (infer_gpu_memory(p.name) = NONE)
                   /\ \A m \in DOMAIN gpu_partitions :
                          (p.name \in NamesOf(gpu_partitions[m]))
                              => infer_gpu_memory(p.name) = SOME(m)
    /\ (pc = "done" /\ error = NONE) =>
           CpuCardNames = [k \in 1..Len(cpu_partitions) |-> cpu_partitions[k].name]

\* a threshold that removes the only accelerator-bearing partition of the
\* report leaves the compute-only partition shown
C24_Witness ==
    /\ pc = "done" /\ error = NONE
    /\ min_gpu_memory = 48
    /\ Len(partitions) = 2
    /\ DOMAIN gpu_partitions # {}
    /\ summary.groups = <<>>
    /\ Len(CpuCardNames) = 1

(***************************************************************************)
(* generate_slurm_script as the specification reads it: the conditions     *)
(* under which an error is to be recorded, stated on the arguments.        *)
(***************************************************************************)
\* the value is a whole number (as a number, or as text that denotes one)
IsWholeNumber(x) ==
    \/ x.t = "int"
    \/ x.t = "float" /\ x.n % 10 = 0
    \/ x.t = "str" /\ IntParses(StrStrip(x.s))

\* HH:MM:SS: three numbers between colons, minutes and seconds below sixty
WellFormedWallTime(w) ==
    LET parts == SplitOn(w, ":")
    IN  /\ Len(parts) = 3
        /\ \A k \in 1..3 : IntParses(StrStrip(parts[k]))
        /\ IntOf(StrStrip(parts[1])) >= 0
        /\ \A k \in 2..3 : IntOf(StrStrip(parts[k])) \in 0..59

\* the error conditions of the specification that hold for the arguments
ErrorConditions(a) ==
    {c \in {"job_name", "program_file", "walltime", "nodes", "gpu_count",
            "array_indices", "dependency"} :
        \/ c = "job_name" /\ Blank(a.job_name)
        \/ c = "program_file" /\ Blank(a.program_file)
        \/ c = "walltime" /\ (a.walltime = <<>> \/ ~WellFormedWallTime(a.walltime))
        \/ c = "nodes" /\ (~IsWholeNumber(a.nodes) \/ IntValue(a.nodes) < 1)
        \/ c = "gpu_count" /\ ~IsWholeNumber(a.gpu_count)
        \/ c = "array_indices" /\ ~Blank(a.array_indices)
                               /\ \A k \in 1..Len(a.array_indices) :
                                      ~IsDigit(a.array_indices[k])
        \/ c = "dependency" /\ a.dependency_type # "None" /\ Blank(a.dependency_job_ids)}

\* the returned text holds a directive line
HasDirective(result) == \E k \in 1..Len(result.lines) : result.lines[k].kind = "#SBATCH"

\* the messages listed under the errors heading of an error report
ListedErrors(result) ==
    LET blanks == {k \in 1..Len(result.lines) : result.lines[k].kind = "blank"}
        last == IF blanks = {} THEN Len(result.lines)
                ELSE (CHOOSE k \in blanks : \A j \in blanks : k <= j) - 1
    IN  [k \in 1..(last - 1) |-> result.lines[k + 1].text]

\* C25: generate_slurm_script returns a job script only when none of the error
\* conditions holds (blank job name, blank program file, missing or malformed wall
\* time, nodes below 1 or not a whole number, GPU count not a whole number, array
\* indices without a digit, dependency type without job ids); when one holds the
\* result is the error report, it lists one error for each condition that holds
\* (exactly the recorded errors) and has no directive; warnings never block: with
\* no condition holding and the resource numbers convertible a script is returned
C25_ScriptOnlyWithoutErrors ==
    gen.pc = "done" =>
        LET conds == ErrorConditions(gen.args)
        IN  /\ gen.result.kind = "script" => conds = {} /\ gen.errors = <<>>
            /\ conds # {} =>
                  /\ gen.result.kind = "errors"
                  /\ ~HasDirective(gen.result)
                  /\ ListedErrors(gen.result) = gen.errors
                  /\ Len(gen.errors) = Cardinality(conds)
            /\ (conds = {} /\ ~ResourcesRaise(gen.args)) =>
                  gen.result.kind = "script" /\ HasDirective(gen.result)

====
